---------------------------- MODULE Spec2Model ----------------------------
(***************************************************************************)
(* Reactivity core of rouse: the effect module (src/src/gilligan.ts lines  *)
(* 204-501: track, trigger, the job queue, effect, computed), the proxy    *)
(* handlers (src/src/handlers.ts) and the effect scopes                    *)
(* (src/unnamed/part_006).                                                 *)
(*                                                                         *)
(* JavaScript is run-to-completion: a top-level call (an assignment        *)
(* through a proxy, effect(), stop(), scope.run(fn), a microtask running   *)
(* flushJobs ...) runs with every nested call it makes before anything     *)
(* else happens.  Each such call is one action.  Its nested calls are      *)
(* executed by a small-step interpreter (Step) over an explicit call stack *)
(* of frames, iterated by Run until the stack is empty.                    *)
(*                                                                         *)
(* The reactive targets are the plain record `state` and the array `list`. *)
(* Branches of the source guarded by Array.isArray(target) are evaluated   *)
(* with IsArray.  Set and Map of the source keep insertion order and are   *)
(* sequences without duplicates.                                           *)
(*                                                                         *)
(* The application is one of several programs, each with its own effects   *)
(* and its own specification: Spec (effects reading and writing the        *)
(* record), SpecR (self-writing and nesting effects), SpecC (a computed    *)
(* value and its readers), SpecS (effect scopes), SpecA (effects reading   *)
(* the array) and SpecW (reactive() and nested reads on a small heap of    *)
(* objects), SpecT (effects whose bodies throw), SpecQ (a scope stopped    *)
(* from inside its own run), SpecF (batched effects that write each        *)
(* other's dependencies), SpecM and SpecK (effects reading a Map), SpecE   *)
(* (effects reading a Set), SpecZ                                          *)
(* (effects reading a frozen array), SpecI (assignments past the end of    *)
(* an array), SpecU (functions passed to scope.run that throw), SpecN      *)
(* (stopped effects called by other effects) and SpecG (an effect reading  *)
(* a property twice).                                                      *)
(*                                                                         *)
(* The network layer is modelled next to it: request() of                  *)
(* src/unnamed/part_001 with mapCatchError and normalizeResponse of        *)
(* src/src/net/response.ts (SpecX), and handleFetch / executeFetch of      *)
(* src/src/directives/rz-fetch.ts for one element (SpecD).  An async       *)
(* function runs to its next await in one action; the network, the timers  *)
(* and the callers are the environment.                                    *)
(***************************************************************************)
EXTENDS Integers, Sequences, FiniteSets, TLC

(***************************************************************************)
(* Bounds and the application program                                      *)
(***************************************************************************)

\* Fuel of the interpreter: no top-level call of the model needs more steps.
MaxSteps == 60

\* A behaviour makes at most MaxOps top-level calls.
MaxOps == 5

\* The application creates at most MaxEffects of the effects below.
MaxEffects == 2

VARIABLES
  data,            \* the raw target: own properties of `state`
  targetMap,       \* (target,key) -> Dep, the subscriber set
  depKeys,         \* the keys of depsMap of an array target, in insertion order
  proxyMap,        \* the WeakMap of reactive(): raw target -> proxy
  proxyTarget,     \* the proxies that exist, each with its [[ProxyTarget]]
  returned,        \* history: what each call returned when it was first made
  deps,            \* run.deps of every effect
  active,          \* run.active
  paused,          \* run.paused
  created,         \* effect() has been called for the effect
  handle,          \* effect() has returned the handle to its caller
  pausedEffects,   \* the WeakSet of effects triggered while paused
  queue,           \* the pending-job Set
  isFlushPending,
  microtasks,      \* number of p.then(flushJobs) callbacks not yet run
  activeEffect,
  effectStack,
  shouldTrack,
  stack,           \* interpreter call stack, empty between top-level calls
  log,             \* history: events of the last top-level call
  stale,           \* history: a dependency changed since the body last started
  readSet,         \* history: the pairs the body read in its last run
  dirty,           \* `dirty` of every computed
  value,           \* `value` of every computed, the cache
  scopes,          \* the fields of every EffectScope
  activeEffectScope,
  during,          \* history: the scopes whose run(fn) was executing when
                   \* the effect was created
  hit,             \* history: keys changed by the application since the last flush
  lastOp,          \* history: the last top-level call
  ops,             \* number of top-level calls made
  abortControllers, \* request: abortKey -> the request that owns the entry
  requests,        \* request: the calls of request(), each at its await
  started,         \* history: the calls that registered a controller, in order
  timers,          \* rz-fetch: the entry of the element in `timers`
  pending,         \* rz-fetch: the timers of the element that have not fired
  inflight,        \* rz-fetch: calls of executeFetch awaiting request()
  nextId           \* rz-fetch: the id setTimeout returns next

\* The effects the application creates (the names are the handles), by the
\* part of the program they belong to.
BasicEffects == {"cond", "copy", "keys", "watch"}

\* effects that read and write the same property
SelfWriters == {"toggle", "bump"}

\* a sync effect that runs another effect inside its body
NestingEffects == {"outer", "inner"}

\* the computed values of the application; the name of a computed is the
\* handle of its internal effect (computedRef.effect) and the tracked target
\* computedRef itself
Computeds == {"pick"}

\* effects that read a computed
ComputedReaders == {"view", "peek"}

\* effects of the program that uses effect scopes
ScopeEffects == {"job", "live", "closer"}

\* effects of the program in which a function passed to run stops the scope
QuitEffects == {"late", "live"}

\* effects of the program whose functions passed to run throw
RunEffects == {"job", "live", "late"}

\* effects of the program that reads a property twice in one run
GraphEffects == {"twice", "swap"}

\* effects of the program that assigns past the end of the array
PastEndEffects == {"len", "scan", "slot"}

\* effects of the program that reads the frozen array
FrozenEffects == {"tally", "first"}

\* effects of the program that reads the Map
MapEffects == {"look", "probe", "count", "each"}

\* effects of the program that reads the Set
SetEffects == {"total", "member", "every"}

\* batched effects that write to each other's dependencies
CycleEffects == {"ping", "pong"}

\* effects of the program whose effect bodies throw
ThrowEffects == {"risky", "safe", "alarm", "wrap"}

\* effects of the program that reads the array
ArrayEffects == {"len", "head", "scan"}

\* The effects of the program that is running: the part it was started with.
Effects == DOMAIN created

\* The effect scopes of the program that is running: S is made at top level,
\* K and L inside S.run.
ScopeNames == {"S", "K", "L"}

\* The scopes of the program in which a function passed to run stops the
\* scope: S is made at top level, M inside run.
QuitScopes == {"S", "M"}

\* The scopes of the program whose functions passed to run throw: S is made
\* at top level, K inside S.run.
RunScopes == {"S", "K"}

Scopes == DOMAIN scopes

RootScopes == {"S"}

NoScope == "undefined"

\* The functions passed to scope.run, as instruction lists.
\*   setup: () => { effect(job); onScopeDispose(cb1); K = effectScope();
\*                  K.run(sub); onScopeDispose(cb2); L = effectScope() }
\*   sub  : () => { effect(live, {sync: true}); onScopeDispose(cb3) }
\*   quit : () => { S.stop(); effect(late); onScopeDispose(cb4);
\*                  M = effectScope() }
\*   host : () => { K = effectScope(); try { K.run(boom) } catch {};
\*                  effect(late) }
\*   boom : () => { effect(live, {sync: true});
\*                  if (state.flag) throw new Error(); effect(job) }
ScopeFns == {"setup", "sub"}

RunFns == {"host", "boom"}

QuitFns == {"quit", "sub"}

Fn(fn) ==
  CASE fn = "setup" -> << [op |-> "effect", e |-> "job"],
                          [op |-> "dispose", cb |-> "cb1"],
                          [op |-> "scope", sc |-> "K"],
                          [op |-> "srun", sc |-> "K", fn |-> "sub"],
                          [op |-> "dispose", cb |-> "cb2"],
                          [op |-> "scope", sc |-> "L"] >>
    [] fn = "sub"   -> << [op |-> "effect", e |-> "live"],
                          [op |-> "dispose", cb |-> "cb3"] >>
    [] fn = "quit"  -> << [op |-> "sstop", sc |-> "S"],
                          [op |-> "effect", e |-> "late"],
                          [op |-> "dispose", cb |-> "cb4"],
                          [op |-> "scope", sc |-> "M"] >>
    [] fn = "host"  -> << [op |-> "scope", sc |-> "K"],
                          [op |-> "trysrun", sc |-> "K", fn |-> "boom"],
                          [op |-> "effect", e |-> "late"] >>
    [] fn = "boom"  -> << [op |-> "effect", e |-> "live"],
                          [op |-> "throwif", k |-> "flag"],
                          [op |-> "effect", e |-> "job"] >>

\* the effects and scopes a call of the function creates
FnCreates(fn) ==
  CASE fn = "setup" -> {"job", "live", "K", "L"}
    [] fn = "sub"   -> {"live"}
    [] fn = "quit"  -> {"late", "M"}
    [] fn = "host"  -> {"K", "live", "job", "late"}
    [] fn = "boom"  -> {"live", "job"}

NoEffect == "null"

\* The one reactive target and its property keys.
Targets == {"state"}

T == "state"

\* The reactive Map of the Map program, new Map([['x', 1]]), the keys the
\* program uses and the calls table.set(k, v) it makes outside effect bodies.
M == "table"

MapKeys == {"x", "y"}

\* The reactive Set of the Set program, new Set([1]), and the values the
\* program adds and deletes.
G == "tags"

SetValues == {"1", "2"}

\* The reactive array of the array program and the capacity the application
\* keeps it within.
A == "list"

MaxLen == 5

\* The array of the program with a frozen array:
\* reactive(Object.freeze([1, 2, 3])).
Z == "frozen"

Keys == {"flag", "a", "b", "length"}

ITERATE_KEY == "Symbol(iterate_key)"

\* JavaScript values stored in the record.
NaN == "NaN"

Undefined == "undefined"

Values == {"0", "1", NaN}

\* The assignments state[k] = v and deletions delete state[k] the application
\* makes outside effect bodies.
WriteInputs == {w \in Keys \X Values : w[2] # NaN \/ w[1] = "a"}

DeleteInputs == {"flag"}

\* Marks a key that is not an own property of the target.
Absent == "absent"

\* The record the application passes to reactive(): { a: 0, b: 0, length: 0 }.
InitialRecord == [k \in Keys |-> IF k = "flag" THEN Absent ELSE "0"]

InitialMap == [k \in MapKeys |-> IF k = "x" THEN "1" ELSE Absent]

MapSetInputs == MapKeys \X {"1", "2"}

\* the Set as a record: a value that is a member is stored under itself
InitialSet == [v \in SetValues |-> IF v = "1" THEN "1" ELSE Absent]

\* Effect bodies, as instruction lists executed against the proxy of `state`.
\*   cond : () => state.flag ? state.a : state.b
\*   copy : () => { state.b = state.a }
\*   keys : () => Object.keys(state)
\*   watch: () => { if (state.length) watch.stop(); state.a }
\*   toggle, bump: () => { state.a = state.a ? 0 : 1 }
\*   outer: () => { state.b; inner() }
\*   inner: () => { state.b = 1 }
\*   pick : computed(() => state.flag ? state.a : state.b)
\*   view, peek: () => pick.value
\*   job  : () => state.a
\*   live : () => state.flag
\*   closer: () => { if (state.flag) S.stop() }
\*   late : () => state.a
\*   twice: () => state.a + state.a
\*   swap : () => state.flag ? state.a : state.b
\*   slot : () => list[4]
\*   tally: () => log(frozen.length)
\*   first: () => frozen[0]
\*   look : () => table.get('x')
\*   probe: () => table.has('x')
\*   count: () => table.size
\*   each : () => table.forEach(cb)
\*   total : () => tags.size
\*   member: () => tags.has(2)
\*   every : () => tags.forEach(cb)
\*   ping : () => { state.b = state.a ? 0 : 1 }
\*   pong : () => { state.a = state.b }
\*   risky: () => { if (state.flag) throw new Error(); state.a }
\*   safe : () => state.a
\*   alarm: () => { if (state.flag) throw new Error() }
\*   wrap : () => { state.a; try { alarm() } catch {}; state.b }
\*   len  : () => log(list.length)
\*   head : () => list[0]
\*   scan : () => Object.keys(list)
Body(e) ==
  CASE e = "cond"  -> << [op |-> "getif", k |-> "flag", k1 |-> "a", k2 |-> "b"] >>
    [] e = "copy"  -> << [op |-> "copy", from |-> "a", to |-> "b"] >>
    [] e = "keys"  -> << [op |-> "ownKeys"] >>
    [] e = "watch" -> << [op |-> "stopif", k |-> "length"], [op |-> "get", k |-> "a"] >>
    [] e = "toggle" -> << [op |-> "flip", k |-> "a"] >>
    [] e = "bump"   -> << [op |-> "flip", k |-> "a"] >>
    [] e = "outer"  -> << [op |-> "get", k |-> "b"], [op |-> "call", e |-> "inner"] >>
    [] e = "inner"  -> << [op |-> "put", k |-> "b", v |-> "1"] >>
    [] e = "pick"   -> << [op |-> "getif", k |-> "flag", k1 |-> "a", k2 |-> "b"] >>
    [] e = "view"   -> << [op |-> "cget", c |-> "pick"] >>
    [] e = "peek"   -> << [op |-> "cget", c |-> "pick"] >>
    [] e = "job"    -> << [op |-> "get", k |-> "a"] >>
    [] e = "live"   -> << [op |-> "get", k |-> "flag"] >>
    [] e = "closer" -> << [op |-> "sstopif", k |-> "flag", sc |-> "S"] >>
    [] e = "late"   -> << [op |-> "get", k |-> "a"] >>
    [] e = "twice"  -> << [op |-> "get", k |-> "a"], [op |-> "get", k |-> "a"] >>
    [] e = "swap"   -> << [op |-> "getif", k |-> "flag", k1 |-> "a", k2 |-> "b"] >>
    [] e = "slot"   -> << [op |-> "read", t |-> A, k |-> "4"] >>
    [] e = "tally"  -> << [op |-> "see", t |-> Z, k |-> "length"] >>
    [] e = "first"  -> << [op |-> "read", t |-> Z, k |-> "0"] >>
    [] e = "look"   -> << [op |-> "mget", t |-> M, k |-> "x"] >>
    [] e = "probe"  -> << [op |-> "mhas", t |-> M, k |-> "x"] >>
    [] e = "count"  -> << [op |-> "msize", t |-> M] >>
    [] e = "each"   -> << [op |-> "mforEach", t |-> M] >>
    [] e = "total"  -> << [op |-> "msize", t |-> G] >>
    [] e = "member" -> << [op |-> "mhas", t |-> G, k |-> "2"] >>
    [] e = "every"  -> << [op |-> "mforEach", t |-> G] >>
    [] e = "ping"   -> << [op |-> "copynot", from |-> "a", to |-> "b"] >>
    [] e = "pong"   -> << [op |-> "copy", from |-> "b", to |-> "a"] >>
    [] e = "risky"  -> << [op |-> "throwif", k |-> "flag"], [op |-> "get", k |-> "a"] >>
    [] e = "safe"   -> << [op |-> "get", k |-> "a"] >>
    [] e = "alarm"  -> << [op |-> "throwif", k |-> "flag"] >>
    [] e = "wrap"   -> << [op |-> "get", k |-> "a"], [op |-> "trycall", e |-> "alarm"],
                          [op |-> "get", k |-> "b"] >>
    [] e = "len"    -> << [op |-> "see", t |-> A, k |-> "length"] >>
    [] e = "head"   -> << [op |-> "read", t |-> A, k |-> "0"] >>
    [] e = "scan"   -> << [op |-> "keysOf", t |-> A] >>

\* options passed to effect(fn, options)
OptSync(e) == e \in {"watch", "bump", "outer", "inner", "peek", "live", "closer",
                     "head", "alarm", "wrap", "probe", "first", "twice", "slot",
                     "member"}

\* a scheduler option is passed: computed() passes its own, `watch` is
\* created with { sync: true, lazy: true, scheduler: queueJob }
OptScheduler(e) == e \in Computeds \cup {"watch"}

OptLazy(e) == e \in {"watch", "inner"} \cup Computeds

\* the handles the body of e refers to: effect() has returned them before e
\* is created
Needs(e) ==
  CASE e = "outer" -> {"inner"}
    [] e = "wrap" -> {"alarm"}
    [] e \in ComputedReaders -> {"pick"}
    [] OTHER -> {}

\* the scopes the body of e refers to
NeedsScopes(e) == IF e = "closer" THEN {"S"} ELSE {}

(***************************************************************************)
(* JavaScript helpers                                                      *)
(***************************************************************************)

\* Set<T> keeps insertion order; it is modelled as a duplicate-free sequence.
SeqHas(seq, x) == \E i \in 1..Len(seq) : seq[i] = x

SeqAdd(seq, x) == IF SeqHas(seq, x) THEN seq ELSE Append(seq, x)

SeqRemove(seq, x) == SelectSeq(seq, LAMBDA y : y # x)

NoDup(seq) == \A i, j \in 1..Len(seq) : seq[i] = seq[j] => i = j

\* oldVal !== value  (strict inequality: NaN !== NaN is true)
StrictNotEqual(x, y) == x # y \/ x = NaN

\* Object.is(x, y): the same value, NaN included
SameValue(x, y) == x = y

\* ToBoolean
Truthy(v) == v \notin {"0", NaN, Undefined}

\* v ? 0 : 1
Flip(v) == IF Truthy(v) THEN "0" ELSE "1"

\* Array.isArray(target)
IsArray(t) == t \in {A, Z}

\* Object.isFrozen(x): the own properties are read-only and non-configurable
Frozen(x) == x \in {"ice", Z}

\* Object.hasOwn(target, key)
HasOwn(s, t, k) == s.data[t][k] # Absent

\* target[key]
GetProp(s, t, k) == IF s.data[t][k] = Absent THEN Undefined ELSE s.data[t][k]

(***************************************************************************)
(* Arrays                                                                  *)
(***************************************************************************)

\* An array is the record of its own properties: the index keys and
\* 'length'.  Property keys are strings and numbers are their decimal
\* numerals.
Digits == << "0", "1", "2", "3", "4", "5", "6", "7", "8", "9" >>

\* String(i)
StringOf(i) == Digits[i + 1]

\* Number(key) of a key that is an array index, -1 for any other key
ToNumber(k) ==
  IF \E i \in 1..Len(Digits) : Digits[i] = k
  THEN (CHOOSE i \in 1..Len(Digits) : Digits[i] = k) - 1
  ELSE -1

IndexKeys == {StringOf(i) : i \in 0..(MaxLen - 1)}

ArrayKeys == IndexKeys \cup {"length"}

\* the elements of the array d, a hole being Absent
Elements(d) == [i \in 1..ToNumber(d["length"]) |-> d[StringOf(i - 1)]]

\* the own properties of the array with the elements els
ArrayOf(els) ==
  [k \in ArrayKeys |->
     IF k = "length" THEN StringOf(Len(els))
     ELSE IF ToNumber(k) < Len(els) THEN els[ToNumber(k) + 1] ELSE Absent]

\* The array the application passes to reactive(): [1, 2, 3].
InitialArray == ArrayOf(<< "1", "2", "3" >>)

Min(x, y) == IF x < y THEN x ELSE y

Max(x, y) == IF x > y THEN x ELSE y

\* the native Array.prototype method on the raw array: the elements after
\* target[key].apply(target, args)
Native(key, els, args) ==
  CASE key = "push"    -> els \o args.items
    [] key = "pop"     -> IF els = << >> THEN els ELSE SubSeq(els, 1, Len(els) - 1)
    [] key = "shift"   -> IF els = << >> THEN els ELSE Tail(els)
    [] key = "unshift" -> args.items \o els
    [] key = "splice"  ->
         LET len   == Len(els)
             start == IF args.start < 0 THEN Max(len + args.start, 0)
                      ELSE Min(args.start, len)
             dc    == Min(Max(args.dc, 0), len - start)
         IN SubSeq(els, 1, start) \o args.items \o SubSeq(els, start + dc + 1, len)

\* how Reflect.set(target, key, value) ends on a raw target: "false" on a
\* frozen target, a RangeError for an array length that is no array length,
\* "true" otherwise
ReflectSetResult(t, k, v) ==
  IF Frozen(t) THEN "false"
  ELSE IF IsArray(t) /\ k = "length" /\ ToNumber(v) < 0 THEN "RangeError"
  ELSE "true"

\* Reflect.set(target, key, value) on a raw target: an array keeps its
\* length above every index and drops the elements at and above a new
\* length; a set that fails leaves the target as it was
ReflectSet(d, t, k, v) ==
  IF ReflectSetResult(t, k, v) # "true" THEN d
  ELSE IF IsArray(t) /\ k = "length"
  THEN [kk \in ArrayKeys |->
          IF kk = "length" THEN v
          ELSE IF ToNumber(kk) < ToNumber(v) THEN d[kk] ELSE Absent]
  ELSE IF IsArray(t) /\ ToNumber(k) >= ToNumber(d["length"])
  THEN [d EXCEPT ![k] = v, !["length"] = StringOf(ToNumber(k) + 1)]
  ELSE [d EXCEPT ![k] = v]

(***************************************************************************)
(* Call stack of the interpreter                                           *)
(***************************************************************************)

Push(s, f) == [s EXCEPT !.stack = <<f>> \o @]

Pop(s) == [s EXCEPT !.stack = Tail(@)]

SetTop(s, f) == [s EXCEPT !.stack = <<f>> \o Tail(@)]

(***************************************************************************)
(* Dependency graph: track, cleanup                                        *)
(***************************************************************************)

\* depsMap.get(key) of targetMap.get(target); the empty sequence for undefined
Dep(s, t, k) == IF <<t, k>> \in DOMAIN s.targetMap THEN s.targetMap[<<t, k>>] ELSE << >>

\* targetMap.get(target) is defined
HasDepsMap(s, t) == \E p \in DOMAIN s.targetMap : p[1] = t

\* the (target,key) pairs whose subscriber set contains e
Subscriptions(s, e) == {p \in DOMAIN s.targetMap : SeqHas(s.targetMap[p], e)}

\* track without the dep.has(activeEffect) test
track_NoHasTest(s, t, k) ==
  IF s.activeEffect = NoEffect \/ ~s.shouldTrack THEN s
  ELSE LET dep == Dep(s, t, k)
           ae  == s.activeEffect
       IN [s EXCEPT !.targetMap = (<<t, k>> :> SeqAdd(dep, ae)) @@ @,
                    !.depKeys = IF IsArray(t) /\ <<t, k>> \notin DOMAIN s.targetMap
                                THEN Append(@, <<t, k>>) ELSE @,
                    !.deps[ae] = Append(@, <<t, k>>)]

track(s, t, k) ==
  IF s.activeEffect = NoEffect \/ ~s.shouldTrack THEN s
  ELSE LET dep == Dep(s, t, k)
           ae  == s.activeEffect
       IN IF SeqHas(dep, ae)
          THEN s
          ELSE [s EXCEPT !.targetMap = (<<t, k>> :> Append(dep, ae)) @@ @,
                         !.depKeys = IF IsArray(t) /\ <<t, k>> \notin DOMAIN s.targetMap
                                     THEN Append(@, <<t, k>>) ELSE @,
                         !.deps[ae] = Append(@, <<t, k>>)]

RECURSIVE DeleteFromDeps(_, _, _)
DeleteFromDeps(tm, ds, e) ==
  IF ds = << >> THEN tm
  ELSE DeleteFromDeps([tm EXCEPT ![Head(ds)] = SeqRemove(@, e)], Tail(ds), e)

cleanup(s, e) ==
  IF Len(s.deps[e]) > 0
  THEN [s EXCEPT !.targetMap = DeleteFromDeps(@, s.deps[e], e),
                 !.deps[e] = << >>]
  ELSE s

(***************************************************************************)
(* Scheduler                                                               *)
(***************************************************************************)

queueFlush(s) ==
  IF s.isFlushPending THEN s
  ELSE [s EXCEPT !.isFlushPending = TRUE, !.microtasks = @ + 1]

\* queueJob without the queue.has(job) test
queueJob_NoHasCheck(s, job) ==
  queueFlush([s EXCEPT !.queue = Append(@, job),
                       !.log = Append(@, [ev |-> "enq", e |-> job, by |-> s.activeEffect])])

\* queueJob moving a job that is already pending to the end of the set
queueJob_MoveToEnd(s, job) ==
  queueFlush([s EXCEPT !.queue = Append(SeqRemove(@, job), job),
                       !.log = IF SeqHas(s.queue, job) THEN @
                               ELSE Append(@, [ev |-> "enq", e |-> job,
                                               by |-> s.activeEffect])])

queueJob(s, job) ==
  IF ~SeqHas(s.queue, job)
  THEN queueFlush([s EXCEPT !.queue = Append(@, job),
                            !.log = Append(@, [ev |-> "enq", e |-> job, by |-> s.activeEffect])])
  ELSE s

\* flushJobs up to the forEach; the iteration is the "flush" frame
flushJobs(s) ==
  Push([s EXCEPT !.isFlushPending = FALSE], [k |-> "flush", i |-> 1])

(***************************************************************************)
(* Effects                                                                 *)
(***************************************************************************)

\* run.options.scheduler is set (it is queueJob, or the scheduler that
\* computed() passes); the second definition is
\* run.options = options.sync ? {} : { scheduler: ... }, the first one lets
\* a scheduler option override sync
HasScheduler_SchedulerWins(e) == ~OptSync(e) \/ OptScheduler(e)

HasScheduler(e) == ~OptSync(e)

\* `run` without the cleanup(run) call
run_NoCleanup(s, e) ==
  LET s0 == [s EXCEPT !.log = Append(@, [ev |-> "run", e |-> e, active |-> s.active[e],
                                         by |-> s.activeEffect,
                                         nested |-> SeqHas(s.effectStack, e)]),
                      !.stale[e] = FALSE,
                      !.readSet[e] = {}]
  IN IF ~s0.active[e]
     THEN Push(s0, [k |-> "run", e |-> e, pc |-> 1, tracked |-> FALSE,
                   ctx |-> <<s.activeEffect, s.effectStack>>])
     ELSE Push([s0 EXCEPT !.effectStack = Append(@, e), !.activeEffect = e],
               [k |-> "run", e |-> e, pc |-> 1, tracked |-> TRUE,
                ctx |-> <<s.activeEffect, s.effectStack>>])

\* the closure `run` up to the call of fn: the body is the "run" frame
run(s, e) ==
  LET s0 == [s EXCEPT !.log = Append(@, [ev |-> "run", e |-> e, active |-> s.active[e],
                                         by |-> s.activeEffect,
                                         nested |-> SeqHas(s.effectStack, e)]),
                      !.stale[e] = FALSE,
                      !.readSet[e] = {}]
  IN IF ~s0.active[e]
     THEN Push(s0, [k |-> "run", e |-> e, pc |-> 1, tracked |-> FALSE,
                   ctx |-> <<s.activeEffect, s.effectStack>>])
     ELSE LET s1 == cleanup(s0, e)
          IN Push([s1 EXCEPT !.effectStack = Append(@, e), !.activeEffect = e],
                  [k |-> "run", e |-> e, pc |-> 1, tracked |-> TRUE,
                ctx |-> <<s.activeEffect, s.effectStack>>])

\* `run` with no finally block
runFinally_NoRestore(s) == s

\* the finally block of `run`
runFinally(s) ==
  LET st == SubSeq(s.effectStack, 1, Len(s.effectStack) - 1)
  IN [s EXCEPT !.effectStack = st,
               !.activeEffect = IF st = << >> THEN NoEffect ELSE st[Len(st)]]

stop(s, e) == cleanup([s EXCEPT !.active[e] = FALSE], e)

\* `add` of trigger without the effect !== activeEffect test
AddEffects_NoActiveTest(acc, effects, ae) ==
  LET F[i \in 0..Len(effects)] ==
        IF i = 0 THEN acc ELSE SeqAdd(F[i - 1], effects[i])
  IN F[Len(effects)]

\* effectsToRun of trigger: the subscribers of the key, then of ITERATE_KEY
\* or 'length' where the source adds them, without the active effect
AddEffects(acc, effects, ae) ==
  LET F[i \in 0..Len(effects)] ==
        IF i = 0 THEN acc
        ELSE IF effects[i] # ae THEN SeqAdd(F[i - 1], effects[i]) ELSE F[i - 1]
  IN F[Len(effects)]

\* depsMap.forEach((dep, key) => { if (key !== 'length' && key !==
\* ITERATE_KEY) add(dep) }) over the keys ks of depsMap
RECURSIVE AddIndexDeps(_, _, _, _)
AddIndexDeps(acc, s, t, ks) ==
  IF ks = << >> THEN acc
  ELSE LET p == Head(ks)
       IN AddIndexDeps(IF p[1] = t /\ p[2] # "length" /\ p[2] # ITERATE_KEY
                       THEN AddEffects(acc, Dep(s, t, p[2]), s.activeEffect)
                       ELSE acc,
                       s, t, Tail(ks))

EffectsToRun(s, t, k) ==
  LET ae == s.activeEffect
      e1 == AddEffects(<< >>, Dep(s, t, k), ae)
      e2 == IF k = ITERATE_KEY \/ k = "length" \/ (IsArray(t) /\ k = "length")
            THEN AddEffects(e1, Dep(s, t, ITERATE_KEY), ae)
            ELSE e1
      e3 == IF IsArray(t) /\ k # "length"
            THEN AddEffects(e2, Dep(s, t, "length"), ae)
            ELSE e2
      e4 == IF IsArray(t) /\ k = "length"
            THEN AddIndexDeps(e3, s, t, s.depKeys)
            ELSE e3
  IN e4

\* trigger up to effectsToRun.forEach: the iteration is the "trig" frame
trigger(s, t, k) ==
  IF ~HasDepsMap(s, t) THEN s
  ELSE Push(s, [k |-> "trig", es |-> EffectsToRun(s, t, k), i |-> 1])

\* the scheduler computed() passes to effect(), without the !dirty test
computedScheduler_NoDirtyTest(s, c) ==
  trigger([s EXCEPT !.dirty[c] = TRUE,
                    !.log = Append(@, [ev |-> "notify", e |-> c,
                                       by |-> s.activeEffect])], c, "value")

\* the scheduler computed() passes to effect(): the "notify" event records
\* the call trigger(computedRef, 'value')
computedScheduler(s, c) ==
  IF ~s.dirty[c]
  THEN trigger([s EXCEPT !.dirty[c] = TRUE,
                         !.log = Append(@, [ev |-> "notify", e |-> c,
                                            by |-> s.activeEffect])], c, "value")
  ELSE s

triggerEffect(s, e) ==
  IF HasScheduler(e)
  THEN IF e \in Computeds THEN computedScheduler(s, e) ELSE queueJob(s, e)
  ELSE run(s, e)

\* the getter of computedRef.value up to the call of runner(); the
\* assignments that follow it are the "cget2" frame.  The "cget" event
\* records the read.
computedGet(s, c) ==
  LET s0 == [s EXCEPT !.log = Append(@, [ev |-> "cget", e |-> c,
                                         by |-> s.activeEffect])]
      s1 == track(s0, c, "value")
  IN IF s1.dirty[c] THEN run(Push(s1, [k |-> "cget2", c |-> c]), c) ELSE s1

\* what the getter of c returns when it is evaluated on the record d
Getter(c, d) ==
  LET at(k) == IF d[k] = Absent THEN Undefined ELSE d[k]
  IN IF Truthy(at("flag")) THEN at("a") ELSE at("b")

\* value = runner(); dirty = false
computedGetAfterRun(s, c) ==
  [s EXCEPT !.value[c] = Getter(c, s.data[T]), !.dirty[c] = FALSE]

(***************************************************************************)
(* Proxy handlers of a record                                              *)
(***************************************************************************)

\* history only: the effects a value-changing write of (t,k) concerns
Readers(s, t, k) == {e \in Effects : SeqHas(Dep(s, t, k), e) /\ e # s.activeEffect}

\* createBaseHandlers.get for a string key with a primitive value
get(s, t, k) == track(s, t, k)

\* createBaseHandlers.ownKeys
ownKeys(s, t) == track(s, t, IF IsArray(t) THEN "length" ELSE ITERATE_KEY)

\* createBaseHandlers.set up to and including the first trigger call; the
\* rest of the handler is the "set2" frame.  A RangeError of Reflect.set
\* leaves the handler; a false result is returned to the assignment, which
\* throws a TypeError in the strict code of a module
set(s, t, k, v, external) ==
  LET oldVal  == GetProp(s, t, k)
      result  == ReflectSetResult(t, k, v)
      changed == result = "true" /\ ~SameValue(oldVal, v)
      s1 == [s EXCEPT !.data[t] = ReflectSet(@, t, k, v),
                      !.stale = [e \in Effects |->
                                   IF changed /\ e \in Readers(s, t, k) THEN TRUE ELSE @[e]],
                      !.hit = [e \in Effects |->
                                 IF external /\ changed /\ e \in Readers(s, t, k)
                                    /\ s.active[e] /\ ~s.paused[e]
                                 THEN @[e] \cup {k} ELSE @[e]]]
  IN IF result # "true"
     THEN Push(s1, [k |-> "throw"])
     ELSE IF StrictNotEqual(oldVal, v)
     THEN trigger(Push(s1, [k |-> "set2", t |-> t, key |-> k]), t, k)
     ELSE s1

\* createBaseHandlers.set after the first trigger returned
setAfterTrigger(s, t, k) ==
  LET isArrayIndex == IsArray(t) /\ ToNumber(k) >= 0
                        /\ ToNumber(k) >= ToNumber(s.data[t]["length"])
  IN IF isArrayIndex \/ ~HasOwn(s, t, k)
     THEN trigger(s, t, IF IsArray(t) THEN "length" ELSE ITERATE_KEY)
     ELSE s

\* Reflect.deleteProperty(target, key): false for an own property that is
\* not configurable, which every own property of a frozen target and the
\* length of an array are
ReflectDeleteProperty(s, t, k) ==
  ~(HasOwn(s, t, k) /\ (Frozen(t) \/ (IsArray(t) /\ k = "length")))

\* createBaseHandlers.deleteProperty up to and including the first trigger;
\* a false result is returned to the delete expression, which throws a
\* TypeError in the strict code of a module
deleteProperty(s, t, k) ==
  LET hadKey == HasOwn(s, t, k)
      result == ReflectDeleteProperty(s, t, k)
      s1 == [s EXCEPT !.data[t][k] = Absent]
  IN IF ~result
     THEN Push(s, [k |-> "throw"])
     ELSE IF hadKey
     THEN trigger(Push(s1, [k |-> "del2", t |-> t]), t, k)
     ELSE s1

\* createBaseHandlers.deleteProperty after the first trigger returned
deleteAfterTrigger(s, t) ==
  trigger(s, t, IF IsArray(t) THEN "length" ELSE ITERATE_KEY)

(***************************************************************************)
(* reactive() (src/src/reactive.ts)                                        *)
(***************************************************************************)

\* The objects of the program that wraps: `obj` = { child: inner, n: 1 },
\* `inner` = {}, `map` = new Map([['child', inner], ['n', 1]]) and
\* `ice` = Object.freeze({ child: inner }).
Raw == {"obj", "inner", "map", "ice"}

WrapKeys == {"child", "n"}

\* target[key] of a raw object, target.get(key) of the raw Map
Own(x, k) ==
  CASE x \in {"obj", "map"} /\ k = "child" -> "inner"
    [] x \in {"obj", "map"} /\ k = "n"     -> "1"
    [] x = "ice" /\ k = "child"            -> "inner"
    [] OTHER                               -> Undefined

\* the identities of the proxies, in the order of their construction
ProxyNames == << "p1", "p2", "p3", "p4", "p5", "p6", "p7", "p8" >>

IsProxy(s, x) == x \in DOMAIN s.proxyTarget

\* isObj(val): val !== null && typeof val === 'object'
isObj(s, x) == x \in Raw \/ IsProxy(s, x)

\* getTargetType(value)
getTargetType(x) == IF x = "map" THEN "COLLECTION" ELSE "COMMON"

\* target[IS_REACTIVE]: the get trap of a proxy answers true, a raw object
\* has no such property
IsReactive(s, x) == IsProxy(s, x)

\* what a call returns: the state after it and the value; `thrown` is the
\* exception that left it instead
Return(s, v) == [s |-> s, v |-> v, thrown |-> FALSE]

Throw(s, err) == [s |-> s, v |-> err, thrown |-> TRUE]

\* new Proxy(target, handler)
NewProxy(s) == ProxyNames[Cardinality(DOMAIN s.proxyTarget) + 1]

reactive(s, x) ==
  IF ~isObj(s, x) THEN Return(s, x)
  ELSE IF IsReactive(s, x) THEN Return(s, x)
  ELSE IF x \in DOMAIN s.proxyMap THEN Return(s, s.proxyMap[x])
  ELSE LET proxy == NewProxy(s)
       IN Return([s EXCEPT !.proxyTarget = (proxy :> x) @@ @,
                           !.proxyMap = (x :> proxy) @@ @], proxy)

\* The [[Get]] of a proxy object after the trap returned v: a read-only,
\* non-configurable own data property of the target must be reported with
\* its own value, otherwise [[Get]] throws a TypeError.
ProxyGetInvariant(r, target, k) ==
  IF ~r.thrown /\ Frozen(target) /\ Own(target, k) # Undefined /\ r.v # Own(target, k)
  THEN Throw(r.s, "TypeError")
  ELSE r

\* proxy[key] for a string key that is no array mutator: createBaseHandlers.get
baseGet(s, proxy, k) ==
  LET target == s.proxyTarget[proxy]
      result == Own(target, k)
      s1     == track(s, target, k)
  IN ProxyGetInvariant(IF isObj(s1, result) THEN reactive(s1, result)
                       ELSE Return(s1, result),
                       target, k)

\* proxy.get(key) of a Map proxy: collectionInst.get
collectionGet(s, proxy, k) ==
  LET target == s.proxyTarget[proxy]
      res    == Own(target, k)
      s1     == track(s, target, k)
  IN IF isObj(s1, res) THEN reactive(s1, res) ELSE Return(s1, res)

\* the state after a call that returned or threw: the outcome is an event,
\* and the first outcome of the call d is remembered
Outcome(r, d) ==
  [r.s EXCEPT !.log = Append(@, [ev |-> IF r.thrown THEN "throw" ELSE "ret",
                                 e |-> r.v, by |-> r.s.activeEffect]),
              !.returned = IF d \in DOMAIN @ \/ r.thrown THEN @ ELSE (d :> r.v) @@ @]

(***************************************************************************)
(* Collection instrumentation (Map, Set)                                   *)
(***************************************************************************)

\* target.size of the raw Map
MapSize(s, t) == Cardinality({k \in DOMAIN s.data[t] : s.data[t][k] # Absent})

\* collectionInst.get for a primitive entry
mapGet(s, t, k) == track(s, t, k)

\* collectionInst.has
mapHas(s, t, k) == track(s, t, k)

\* the getter collectionInst.size
mapSize(s, t) == track(s, t, ITERATE_KEY)

\* collectionInst.forEach(callback) with a callback that reads no reactive
\* state and values that are primitives
mapForEach(s, t) == track(s, t, ITERATE_KEY)

\* collectionInst.set up to and including the first trigger call; the rest
\* is the "mset2" frame
mapSet(s, t, k, v) ==
  LET oldVal == GetProp(s, t, k)
      hadKey == HasOwn(s, t, k)
      s1     == [s EXCEPT !.data[t][k] = v]
  IN IF ~hadKey \/ StrictNotEqual(v, oldVal)
     THEN trigger(Push(s1, [k |-> "mset2", t |-> t, hadKey |-> hadKey]), t, k)
     ELSE s1

\* collectionInst.set after the first trigger returned
mapSetAfterTrigger(s, t, hadKey) ==
  IF ~hadKey THEN trigger(s, t, ITERATE_KEY) ELSE s

\* collectionInst.add up to and including the first trigger call; the
\* second one is the "sadd2" frame
setAdd(s, t, v) ==
  LET hadKey == HasOwn(s, t, v)
      s1     == [s EXCEPT !.data[t][v] = v]
  IN IF ~hadKey
     THEN trigger(Push(s1, [k |-> "sadd2", t |-> t]), t, v)
     ELSE s1

\* collectionInst.add after the first trigger returned
setAddAfterTrigger(s, t) == trigger(s, t, ITERATE_KEY)

\* collectionInst.delete up to and including the first trigger call
mapDelete(s, t, k) ==
  LET hadKey == HasOwn(s, t, k)
      s1     == [s EXCEPT !.data[t][k] = Absent]
  IN IF hadKey
     THEN trigger(Push(s1, [k |-> "mdel2", t |-> t]), t, k)
     ELSE s1

\* collectionInst.delete after the first trigger returned
mapDeleteAfterTrigger(s, t) == trigger(s, t, ITERATE_KEY)

\* collectionInst.clear
mapClear(s, t) ==
  LET hadItems == MapSize(s, t) > 0
      s1       == [s EXCEPT !.data[t] = [k \in DOMAIN @ |-> Absent]]
  IN IF hadItems THEN trigger(s1, t, ITERATE_KEY) ELSE s1

(***************************************************************************)
(* Array instrumentation                                                   *)
(***************************************************************************)

pauseTracking(s) == [s EXCEPT !.shouldTrack = FALSE]

resetTracking(s) == [s EXCEPT !.shouldTrack = TRUE]

\* arrayInstrumentations[key] with two calls of trigger
arrayInstrumentations_TriggerTwice(s, t, key, args) ==
  LET s1 == pauseTracking(s)
      s2 == [s1 EXCEPT !.data[t] = ArrayOf(Native(key, Elements(@), args))]
      s3 == resetTracking(s2)
  IN trigger(trigger(s3, t, "length"), t, "length")

\* arrayInstrumentations[key] called on the proxy of t: the native method
\* works on the raw target, so no trap is entered while it runs
\* Each of the five native methods ends by setting 'length' (and adds or
\* deletes index properties before), which throws a TypeError on a frozen
\* array: the exception leaves the instrumented method after pauseTracking().
arrayInstrumentations(s, t, key, args) ==
  LET s1 == pauseTracking(s)
      s2 == [s1 EXCEPT !.data[t] = ArrayOf(Native(key, Elements(@), args))]
      s3 == resetTracking(s2)
  IN IF Frozen(t) THEN Push(s1, [k |-> "throw"]) ELSE trigger(s3, t, "length")

(***************************************************************************)
(* Effect scopes (src/unnamed/part_006)                                    *)
(***************************************************************************)

\* the fields of an EffectScope; `origin`, `registered` and `disposed` are
\* history: the parent at construction, the callbacks pushed to cleanups
\* while the scope was active, and the callbacks stop() has invoked
NewScopeRecord(parent) ==
  [created |-> TRUE, active |-> TRUE, effects |-> << >>, cleanups |-> << >>,
   scopes |-> << >>, isPaused |-> FALSE, parent |-> parent,
   origin |-> parent, registered |-> << >>, disposed |-> << >>]

NoScopeRecord ==
  [created |-> FALSE, active |-> FALSE, effects |-> << >>, cleanups |-> << >>,
   scopes |-> << >>, isPaused |-> FALSE, parent |-> NoScope,
   origin |-> NoScope, registered |-> << >>, disposed |-> << >>]

\* effectScope(): the constructor
effectScope(s, sc) ==
  LET aes == s.activeEffectScope
      s1  == [s EXCEPT !.scopes[sc] = NewScopeRecord(aes)]
  IN IF aes # NoScope
     THEN [s1 EXCEPT !.scopes[aes].scopes = SeqAdd(@, sc)]
     ELSE s1

\* scope.run(fn) up to the call of fn: the body of fn and the finally block
\* are the "srun" frame
scopeRun(s, sc, fn) ==
  IF s.scopes[sc].active
  THEN Push([s EXCEPT !.activeEffectScope = sc,
                      !.log = Append(@, [ev |-> "fn", e |-> fn, by |-> sc])],
            [k |-> "srun", sc |-> sc, fn |-> fn, pc |-> 1,
             prev |-> s.activeEffectScope])
  ELSE [s EXCEPT !.log = Append(@, [ev |-> "warn", e |-> sc, by |-> NoScope])]

\* onScopeDispose(fn)
onScopeDispose(s, cb) ==
  LET aes == s.activeEffectScope
  IN IF aes # NoScope
     THEN [s EXCEPT !.scopes[aes].cleanups = Append(@, cb),
                    !.scopes[aes].registered =
                       IF s.scopes[aes].active THEN Append(@, cb) ELSE @]
     ELSE [s EXCEPT !.log = Append(@, [ev |-> "warn", e |-> cb, by |-> NoScope])]

\* this.effects.forEach((e) => e.stop()); this.effects.length = 0
RECURSIVE stopEffects(_, _, _)
stopEffects(s, sc, es) ==
  IF es = << >> THEN [s EXCEPT !.scopes[sc].effects = << >>]
  ELSE stopEffects(stop([s EXCEPT !.log = Append(@, [ev |-> "estop", e |-> Head(es),
                                                     by |-> sc])], Head(es)),
                   sc, Tail(es))

\* the cleanups of stop() with the list cleared before the loop
runCleanups_ClearFirst(s, sc) ==
  [s EXCEPT !.scopes[sc].cleanups = << >>]

\* this.cleanups.forEach((cleanup) => cleanup()); this.cleanups.length = 0
runCleanups(s, sc) ==
  LET cbs == s.scopes[sc].cleanups
  IN [s EXCEPT !.log = @ \o [i \in 1..Len(cbs) |->
                               [ev |-> "cleanup", e |-> cbs[i], by |-> sc]],
               !.scopes[sc].disposed = @ \o cbs,
               !.scopes[sc].cleanups = << >>]

\* the end of stop() without the removal from the parent's child set
detach_Never(s, sc, fromParent) ==
  [s EXCEPT !.scopes[sc].parent = NoScope]

\* if (this.parent && !fromParent) this.parent.scopes?.delete(this);
\* this.parent = undefined
detach(s, sc, fromParent) ==
  LET parent == s.scopes[sc].parent
      s1 == IF parent # NoScope /\ ~fromParent
            THEN [s EXCEPT !.scopes[parent].scopes = SeqRemove(@, sc)]
            ELSE s
  IN [s1 EXCEPT !.scopes[sc].parent = NoScope]

\* scope.stop(fromParent)
RECURSIVE scopeStop(_, _, _)
RECURSIVE stopChildren(_, _, _)
scopeStop(s, sc, fromParent) ==
  IF s.scopes[sc].active
  THEN LET s1 == [s EXCEPT !.scopes[sc].active = FALSE,
                           !.log = Append(@, [ev |-> "sstop", e |-> sc,
                                              by |-> s.activeEffect])]
           s2 == stopEffects(s1, sc, s1.scopes[sc].effects)
           s3 == runCleanups(s2, sc)
           s4 == stopChildren(s3, sc, s3.scopes[sc].scopes)
       IN detach(s4, sc, fromParent)
  ELSE s

\* this.scopes.forEach((s) => s.stop(true)); this.scopes.clear()
stopChildren(s, sc, cs) ==
  IF cs = << >> THEN [s EXCEPT !.scopes[sc].scopes = << >>]
  ELSE stopChildren(scopeStop(s, Head(cs), TRUE), sc, Tail(cs))

\* run.pause()
pause(s, e) == [s EXCEPT !.paused[e] = TRUE]

\* run.resume()
resume(s, e) ==
  IF s.paused[e]
  THEN LET s1 == [s EXCEPT !.paused[e] = FALSE]
       IN IF e \in s1.pausedEffects
          THEN triggerEffect([s1 EXCEPT !.pausedEffects = @ \ {e}], e)
          ELSE s1
  ELSE s

\* this.effects.forEach((e) => e.pause())
RECURSIVE pauseEffects(_, _)
pauseEffects(s, es) ==
  IF es = << >> THEN s ELSE pauseEffects(pause(s, Head(es)), Tail(es))

\* scope.pause()
RECURSIVE scopePause(_, _)
RECURSIVE pauseChildren(_, _)
scopePause(s, sc) ==
  IF s.scopes[sc].active
  THEN LET s1 == [s EXCEPT !.scopes[sc].isPaused = TRUE]
           s2 == pauseChildren(s1, s1.scopes[sc].scopes)
       IN pauseEffects(s2, s2.scopes[sc].effects)
  ELSE s

\* this.scopes.forEach((s) => s.pause())
pauseChildren(s, cs) ==
  IF cs = << >> THEN s ELSE pauseChildren(scopePause(s, Head(cs)), Tail(cs))

\* scope.resume() up to the two loops, which are the "sres" frame: i and j
\* are the positions of forEach in this.scopes and in this.effects
scopeResume(s, sc) ==
  IF s.scopes[sc].active /\ s.scopes[sc].isPaused
  THEN Push([s EXCEPT !.scopes[sc].isPaused = FALSE],
            [k |-> "sres", sc |-> sc, i |-> 1, j |-> 1])
  ELSE s

\* one turn of this.scopes.forEach((s) => s.resume()) and, after it, of
\* this.effects.forEach((e) => e.resume()); an effect that resumes with a
\* trigger pending runs inside the loop
StepScopeResume(s, f) ==
  LET cs == s.scopes[f.sc].scopes
      es == s.scopes[f.sc].effects
  IN IF f.j = 1 /\ f.i <= Len(cs)
     THEN scopeResume(SetTop(s, [f EXCEPT !.i = @ + 1]), cs[f.i])
     ELSE IF f.j <= Len(es)
     THEN resume(SetTop(s, [f EXCEPT !.j = @ + 1]), es[f.j])
     ELSE Pop(s)

\* the end of effect(), which a first run that throws does not reach:
\* if (activeEffectScope) activeEffectScope.effects.push(run); return run
effectRegister(s, e) ==
  LET aes == s.activeEffectScope
      s1  == [s EXCEPT !.handle[e] = TRUE]
  IN IF aes # NoScope THEN [s1 EXCEPT !.scopes[aes].effects = Append(@, e)] ELSE s1

\* history only: the scopes whose run(fn) is executing
Running(s) ==
  {s.stack[i].sc : i \in {j \in 1..Len(s.stack) : s.stack[j].k = "srun"}}

(***************************************************************************)
(* The interpreter                                                         *)
(***************************************************************************)

\* effect(fn, options) up to the first run; the registration with the
\* active scope that follows it is the "eff2" frame
effect(s, e) ==
  LET s1 == [s EXCEPT !.created[e] = TRUE, !.active[e] = TRUE,
                      !.paused[e] = FALSE, !.deps[e] = << >>,
                      !.during[e] = Running(s)]
  IN IF ~OptLazy(e)
     THEN run(Push(s1, [k |-> "eff2", e |-> e]), e)
     ELSE effectRegister(s1, e)

\* history only: the body of e read (t,k) through the proxy
NoteRead(s, e, t, k) == [s EXCEPT !.readSet[e] = @ \cup {<<t, k>>}]

\* one statement of the body of e
Exec(s, e, ins) ==
  CASE ins.op = "get" ->
         get(NoteRead(s, e, T, ins.k), T, ins.k)
    [] ins.op = "getif" ->
         LET kk == IF Truthy(GetProp(s, T, ins.k)) THEN ins.k1 ELSE ins.k2
         IN get(NoteRead(get(NoteRead(s, e, T, ins.k), T, ins.k), e, T, kk), T, kk)
    [] ins.op = "ownKeys" ->
         ownKeys(NoteRead(s, e, T, ITERATE_KEY), T)
    [] ins.op = "copy" ->
         set(get(NoteRead(s, e, T, ins.from), T, ins.from), T, ins.to,
             GetProp(s, T, ins.from), FALSE)
    [] ins.op = "copynot" ->
         set(get(NoteRead(s, e, T, ins.from), T, ins.from), T, ins.to,
             Flip(GetProp(s, T, ins.from)), FALSE)
    [] ins.op = "stopif" ->
         LET s1 == get(NoteRead(s, e, T, ins.k), T, ins.k)
         IN IF Truthy(GetProp(s, T, ins.k)) THEN stop(s1, e) ELSE s1
    [] ins.op = "flip" ->
         set(get(NoteRead(s, e, T, ins.k), T, ins.k), T, ins.k,
             Flip(GetProp(s, T, ins.k)), FALSE)
    [] ins.op = "put" ->
         set(s, T, ins.k, ins.v, FALSE)
    [] ins.op = "call" ->
         run(s, ins.e)
    [] ins.op = "cget" ->
         computedGet(NoteRead(s, e, ins.c, "value"), ins.c)
    [] ins.op = "throwif" ->
         LET s1 == get(NoteRead(s, e, T, ins.k), T, ins.k)
         IN IF Truthy(GetProp(s, T, ins.k)) THEN Push(s1, [k |-> "throw"]) ELSE s1
    [] ins.op = "trycall" ->
         run(Push(s, [k |-> "try", e |-> e]), ins.e)
    [] ins.op = "mget" ->
         mapGet(NoteRead(s, e, ins.t, ins.k), ins.t, ins.k)
    [] ins.op = "mhas" ->
         mapHas(NoteRead(s, e, ins.t, ins.k), ins.t, ins.k)
    [] ins.op = "msize" ->
         mapSize(NoteRead(s, e, ins.t, ITERATE_KEY), ins.t)
    [] ins.op = "mforEach" ->
         mapForEach(NoteRead(s, e, ins.t, ITERATE_KEY), ins.t)
    [] ins.op = "read" ->
         get(NoteRead(s, e, ins.t, ins.k), ins.t, ins.k)
    [] ins.op = "see" ->
         get(NoteRead([s EXCEPT !.log = Append(@, [ev |-> "seen", e |-> e,
                                                   by |-> s.activeEffect,
                                                   v |-> GetProp(s, ins.t, ins.k)])],
                      e, ins.t, ins.k), ins.t, ins.k)
    [] ins.op = "keysOf" ->
         ownKeys(NoteRead(s, e, ins.t, IF IsArray(ins.t) THEN "length" ELSE ITERATE_KEY),
                 ins.t)
    [] ins.op = "sstopif" ->
         LET s1 == get(NoteRead(s, e, T, ins.k), T, ins.k)
         IN IF Truthy(GetProp(s, T, ins.k)) THEN scopeStop(s1, ins.sc, FALSE) ELSE s1

\* one statement of a function passed to scope.run
ExecFn(s, ins) ==
  CASE ins.op = "effect"  -> effect(s, ins.e)
    [] ins.op = "dispose" -> onScopeDispose(s, ins.cb)
    [] ins.op = "scope"   -> effectScope(s, ins.sc)
    [] ins.op = "srun"    -> scopeRun(s, ins.sc, ins.fn)
    [] ins.op = "sstop"   -> scopeStop(s, ins.sc, FALSE)
    [] ins.op = "throwif" ->
         IF Truthy(GetProp(s, T, ins.k))
         THEN Push(get(s, T, ins.k), [k |-> "throw"])
         ELSE get(s, T, ins.k)
    [] ins.op = "trysrun" ->
         scopeRun(Push(s, [k |-> "try", e |-> NoEffect]), ins.sc, ins.fn)

\* the finally block of scope.run without the assignment
scopeRunFinally_NoRestore(s, f) == s

\* the finally block of scope.run: activeEffectScope = currentEffectScope
scopeRunFinally(s, f) == [s EXCEPT !.activeEffectScope = f.prev]

\* the body of fn in scope.run from statement pc on, then the finally block
StepScopeRun(s, f) ==
  IF f.pc > Len(Fn(f.fn))
  THEN scopeRunFinally(Pop(s), f)
  ELSE ExecFn(SetTop(s, [f EXCEPT !.pc = @ + 1]), Fn(f.fn)[f.pc])

\* the body of `run` from statement pc on, then its finally block
StepRun(s, f) ==
  IF f.pc > Len(Body(f.e))
  THEN IF f.tracked THEN runFinally(Pop(s)) ELSE Pop(s)
  ELSE Exec(SetTop(s, [f EXCEPT !.pc = @ + 1]), f.e, Body(f.e)[f.pc])

\* one iteration of effectsToRun.forEach in trigger
StepTrigger(s, f) ==
  IF f.i > Len(f.es) THEN Pop(s)
  ELSE LET e  == f.es[f.i]
           s1 == SetTop(s, [f EXCEPT !.i = @ + 1])
       IN IF s1.paused[e]
          THEN [s1 EXCEPT !.pausedEffects = @ \cup {e}]
          ELSE triggerEffect(s1, e)

\* flushJobs calling job() without the job.active test
StepFlush_NoActiveTest(s, f) ==
  IF f.i > Len(s.queue) THEN [Pop(s) EXCEPT !.queue = << >>]
  ELSE run(SetTop(s, [f EXCEPT !.i = @ + 1]), s.queue[f.i])

\* one iteration of queue.forEach in flushJobs (the live set: entries added
\* while iterating are visited), then queue.clear()
StepFlush(s, f) ==
  IF f.i > Len(s.queue) THEN [Pop(s) EXCEPT !.queue = << >>]
  ELSE LET job == s.queue[f.i]
           s1  == SetTop(s, [f EXCEPT !.i = @ + 1])
       IN IF s1.active[job] THEN run(s1, job) ELSE s1

\* An exception leaves the call below it on the stack: a finally block of
\* that call runs, a catch block ends the propagation, and with no call left
\* the exception has reached the caller of the top-level call.  The events
\* "threw", "caught" and "uncaught" record it; "threw" holds the tracking
\* context after the finally block of `run` (by, stack) and the one the run
\* started from (by0, stack0).
Unwind(s) ==
  IF Len(s.stack) = 1
  THEN [Pop(s) EXCEPT !.log = Append(@, [ev |-> "uncaught", e |-> NoEffect,
                                         by |-> s.activeEffect])]
  ELSE LET f  == s.stack[2]
           s1 == [s EXCEPT !.stack = <<Head(@)>> \o Tail(Tail(@))]
           threw(x) == [x EXCEPT !.log = Append(@, [ev |-> "threw", e |-> f.e,
                                                    by |-> x.activeEffect,
                                                    stack |-> x.effectStack,
                                                    by0 |-> f.ctx[1],
                                                    stack0 |-> f.ctx[2]])]
       IN CASE f.k = "run"  -> IF f.tracked THEN threw(runFinally(s1)) ELSE threw(s1)
            [] f.k = "try"  -> [Pop(s1) EXCEPT !.log = Append(@, [ev |-> "caught", e |-> f.e,
                                                                   by |-> s.activeEffect])]
            [] f.k = "srun" -> scopeRunFinally(s1, f)
            [] OTHER        -> s1

Step(s) ==
  LET f == Head(s.stack)
  IN CASE f.k = "run"   -> StepRun(s, f)
       [] f.k = "throw" -> Unwind(s)
       [] f.k = "mset2" -> mapSetAfterTrigger(Pop(s), f.t, f.hadKey)
       [] f.k = "mdel2" -> mapDeleteAfterTrigger(Pop(s), f.t)
       [] f.k = "sadd2" -> setAddAfterTrigger(Pop(s), f.t)
       [] f.k = "try"   -> Pop(s)
       [] f.k = "trig"  -> StepTrigger(s, f)
       [] f.k = "flush" -> StepFlush(s, f)
       [] f.k = "set2"  -> setAfterTrigger(Pop(s), f.t, f.key)
       [] f.k = "del2"  -> deleteAfterTrigger(Pop(s), f.t)
       [] f.k = "cget2" -> computedGetAfterRun(Pop(s), f.c)
       [] f.k = "eff2"  -> effectRegister(Pop(s), f.e)
       [] f.k = "srun"  -> StepScopeRun(s, f)
       [] f.k = "sres"  -> StepScopeResume(s, f)

RECURSIVE RunSteps(_, _)
RunSteps(s, n) ==
  IF s.stack = << >> \/ n = 0 THEN s ELSE RunSteps(Step(s), n - 1)

\* run the pending calls to completion
Run(s) == RunSteps(s, MaxSteps)

(***************************************************************************)
(* request() (src/unnamed/part_001, src/src/net/response.ts)               *)
(***************************************************************************)

\* options.retry of every call
MaxRetry == 1

\* The calls of request() the application makes: r1 and r2 pass the same
\* abortKey, r3 passes a signal of its own and no abortKey.
KeyedRequests == {"r1", "r2"}

SignalRequests == {"r3"}

Requests == KeyedRequests \cup SignalRequests

NoKey == "undefined"

AbortKeys == {"search"}

\* options.abortKey
AbortKeyOf(r) == IF r \in KeyedRequests THEN "search" ELSE NoKey

\* abortControllers.get(key) of a key that is not in the map
NoOwner == "none"

\* response.status of the responses the server sends
Statuses == {"200", "500", "503"}

\* A call of request(): where it is suspended (new: not made; fetching: at
\* await fetch; waiting: at the Retry-After timer; backoff: at the backoff
\* timer; reading: at await response.text(); rejected: at await fetch, whose
\* promise has rejected with an AbortError; bodyfailed: at await
\* response.text(), whose promise has rejected; returned: at await
\* execute(0), whose promise has a value; done: resolved), the argument of
\* the running execute(), whether its main signal is aborted, the status of
\* the response being read, the error status execute returned and the one
\* the call resolved with (OK for no error).  A call at rejected, bodyfailed
\* or returned continues in a microtask.  `fetches` and `abortedAt` are
\* history: the number of calls of fetch made, and where the call was when
\* the main signal was aborted.  `reason` is signal.reason of the main
\* signal.  A call whose execute threw has ret = Thrown, and its promise is
\* rejected when it is done: it has no result.
NewRequest ==
  [pc |-> "new", attempt |-> 0, aborted |-> FALSE, reason |-> "", status |-> "",
   ret |-> "none", result |-> "none", fetches |-> 0, abortedAt |-> ""]

\* execute left by an exception
Thrown == "thrown"

\* The errors a promise awaited by execute rejects with: the DOMException of
\* controller.abort() without argument, the one of AbortSignal.timeout(), a
\* string or null passed to controller.abort(reason), the TypeError of a
\* failed fetch and the Error('Aborted') execute throws itself.
AbortError == "AbortError"

TimeoutError == "TimeoutError"

\* the reasons the caller aborts its signal with
CallerReasons == {AbortError, TimeoutError, "user left the page", "null"}

\* err.name
NameOf(err) ==
  CASE err \in {AbortError, TimeoutError} -> err
    [] err = "TypeError"                  -> "TypeError"
    [] err = "Error"                      -> "Error"
    [] OTHER                              -> Undefined

\* the calls whose continuation is in the microtask queue
Continuing(n) == {r \in Requests : n.rq[r].pc \in {"rejected", "bodyfailed", "returned"}}

\* the finally block of request() without the ownership test
requestFinally_NoOwnerTest(n, r) ==
  IF AbortKeyOf(r) # NoKey
  THEN [n EXCEPT !.ac[AbortKeyOf(r)] = NoOwner]
  ELSE n

\* the finally block of request(): the entry is deleted if it is the one
\* this call has set
requestFinally(n, r) ==
  IF AbortKeyOf(r) # NoKey /\ n.ac[AbortKeyOf(r)] = r
  THEN [n EXCEPT !.ac[AbortKeyOf(r)] = NoOwner]
  ELSE n

\* execute() returns res: the promise request() awaits has a value
executeReturn(n, r, res) == [n EXCEPT !.rq[r].pc = "returned", !.rq[r].ret = res]

\* request() after await execute(0): the finally block, then the promise of
\* the call resolves with what execute returned, or rejects with what it
\* threw
resolve(n, r) ==
  requestFinally([n EXCEPT !.rq[r].pc = "done",
                           !.rq[r].result = IF n.rq[r].ret = Thrown THEN "none"
                                            ELSE n.rq[r].ret], r)

\* mapCatchError(err, isMainAborted).status: Thrown when reading err.name
\* throws a TypeError, which it does for null
mapCatchError(err, isMainAborted) ==
  IF err = "null" THEN Thrown
  ELSE LET isAbort == NameOf(err) = AbortError
       IN IF isAbort
          THEN IF isMainAborted THEN "CANCELED" ELSE "TIMEOUT"
          ELSE "NETWORK_ERROR"

\* the outer catch block of execute with a retry after an explicit cancel too
executeCatch_RetryCanceled(n, r, err) ==
  IF n.rq[r].attempt < MaxRetry
  THEN [n EXCEPT !.rq[r].pc = "backoff"]
  ELSE executeReturn(n, r, mapCatchError(err, n.rq[r].aborted))

\* the outer catch block of execute for the error err, up to the backoff
\* timer, the return or the exception of mapCatchError
executeCatch(n, r, err) ==
  LET status == mapCatchError(err, n.rq[r].aborted)
  IN IF status = Thrown
     THEN executeReturn(n, r, Thrown)
     ELSE IF n.rq[r].attempt < MaxRetry /\ status # "CANCELED"
     THEN [n EXCEPT !.rq[r].pc = "backoff"]
     ELSE executeReturn(n, r, status)

\* execute(attempt) up to await fetch(...)
execute(n, r, attempt) ==
  IF n.rq[r].aborted
  THEN executeReturn(n, r, "CANCELED")
  ELSE [n EXCEPT !.rq[r].pc = "fetching", !.rq[r].attempt = attempt,
                 !.rq[r].fetches = @ + 1]

\* execute after await fetch(...) resolved with a response of status st, up
\* to the Retry-After timer or await response.text() in normalizeResponse
executeAfterFetch(n, r, st) ==
  IF st # "200" /\ n.rq[r].attempt < MaxRetry /\ st \in {"429", "503"}
  THEN IF n.rq[r].aborted
       THEN executeCatch(n, r, "Error")
       ELSE [n EXCEPT !.rq[r].pc = "waiting"]
  ELSE [n EXCEPT !.rq[r].pc = "reading", !.rq[r].status = st]

\* normalizeResponse(response).error.status after response.text() settled;
\* failed: it rejected
normalizeResponse(st, failed) ==
  IF st # "200" THEN st
  ELSE IF failed THEN "PARSE_ERROR" ELSE "OK"

\* the abort event of the signal fetch was given (attemptController.signal,
\* which onMainAbort aborts, for a call with an abortKey; the signal of the
\* caller, which ...fetchOptions puts in its place, for the others): the
\* promise of fetch rejects with the reason of that signal, or the body
\* being read is errored and the promise of response.text() rejects; the
\* call goes on in a microtask.  A call at a timer or past its last await
\* notices nothing
onMainAbort(n, r) ==
  CASE n.rq[r].pc = "fetching" -> [n EXCEPT !.rq[r].pc = "rejected"]
    [] n.rq[r].pc = "reading"  -> [n EXCEPT !.rq[r].pc = "bodyfailed"]
    [] OTHER                   -> n

\* controller.abort(reason) of the main signal of r: the flag and the
\* reason, then the listeners
abort(n, r, reason) ==
  IF n.rq[r].aborted THEN n
  ELSE onMainAbort([n EXCEPT !.rq[r].aborted = TRUE,
                             !.rq[r].reason = reason,
                             !.rq[r].abortedAt = n.rq[r].pc], r)

\* the reason of the signal fetch was given, once the main signal of r is
\* aborted: attemptController.abort() has no argument, the signal of the
\* caller has the reason of the caller
FetchSignalReason(n, r) ==
  IF r \in SignalRequests THEN n.rq[r].reason ELSE AbortError

\* the timeout timer of the attempt: attemptController.abort().  The fetch
\* of a call that passed a signal of its own listens to that signal and goes
\* on; the fetch of the others rejects with an AbortError and execute
\* continues in its catch block
onTimeout(n, r) ==
  IF r \in SignalRequests THEN n ELSE executeCatch(n, r, AbortError)

\* request(url, options) up to its first await: the concurrency block, then
\* execute(0)
request(n, r) ==
  LET key  == AbortKeyOf(r)
      prev == IF key # NoKey THEN n.ac[key] ELSE NoOwner
      n1   == IF prev # NoOwner
              THEN abort(n, prev, "Replacement request started")
              ELSE n
      n2   == IF key # NoKey
              THEN [n1 EXCEPT !.ac[key] = r, !.started = Append(@, r)]
              ELSE n1
  IN execute(n2, r, 0)

\* execute after the promise of fetch rejected with the reason of the
\* aborted signal: the catch blocks
executeAfterAbort(n, r) == executeCatch(n, r, FetchSignalReason(n, r))

\* normalizeResponse after the promise of response.text() rejected, and
\* execute after it: return normalized
executeAfterBodyFailed(n, r) ==
  executeReturn(n, r, normalizeResponse(n.rq[r].status, TRUE))

\* normalizeResponse after the promise of response.text() resolved, and
\* execute after it: return normalized
executeAfterBody(n, r) ==
  executeReturn(n, r, normalizeResponse(n.rq[r].status, FALSE))

(***************************************************************************)
(* The fetch directive (src/src/directives/rz-fetch.ts)                    *)
(***************************************************************************)

\* The element has rz-req="debounce: 300, poll: 1000".
Debounce == 300

Poll == 1000

\* setTimeout is called at most MaxTimers times in a behaviour
MaxTimers == 6

\* timers.get(el) when the element has no entry; 0 is the undefined id
NoTimers == [debounce |-> 0, poll |-> 0]

\* clearTimeout(id)
clearTimeout(p, id) == {t \in p : t.id # id}

\* executeFetch up to await request(...)
executeFetch(d) == [d EXCEPT !.inflight = @ + 1]

\* handleFetch with the poll timer recorded next to the debounce timer
handleFetch(d) ==
  LET existing == d.timers
      p1 == IF existing.poll # 0 THEN clearTimeout(d.pending, existing.poll) ELSE d.pending
      p2 == IF existing.debounce # 0 THEN clearTimeout(p1, existing.debounce) ELSE p1
  IN IF Debounce > 0
     THEN [d EXCEPT !.pending = p2 \cup {[kind |-> "debounce", id |-> d.nextId]},
                    !.timers = [existing EXCEPT !.debounce = d.nextId],
                    !.nextId = @ + 1]
     ELSE executeFetch([d EXCEPT !.pending = p1])

\* getInsertConfig(el) of an element without the insert directive
getInsertConfig == [target |-> "el", strategy |-> "innerHTML"]

\* executeFetch after await request(...) resolved with the error status res
\* (OK for no error) and data of the type given: an error other than
\* CANCELED is thrown, and so is the TypeError of targets.length for an
\* answer that is a string, getInsertConfig returning no targets; the poll
\* timer is set when nothing was thrown
executeFetchAfterRequest(d, res, typeofData) ==
  LET d1 == [d EXCEPT !.inflight = @ - 1]
      threw == IF res # "OK" THEN res # "CANCELED"
               ELSE typeofData = "string" /\ "targets" \notin DOMAIN getInsertConfig
  IN IF res = "OK" /\ ~threw /\ Poll > 0
     THEN [d1 EXCEPT !.pending = @ \cup {[kind |-> "poll", id |-> d.nextId]},
                     !.timers = [debounce |-> 0, poll |-> d.nextId],
                     !.nextId = @ + 1]
     ELSE d1

(***************************************************************************)
(* State                                                                   *)
(***************************************************************************)

\* the variables of the reactivity core
coreVars == <<data, targetMap, depKeys, proxyMap, proxyTarget, returned, deps, active, paused, created, handle, pausedEffects, queue,
              isFlushPending, microtasks, activeEffect, effectStack, shouldTrack,
              stack, dirty, value, scopes, activeEffectScope, during, log, stale,
              readSet, hit, lastOp, ops>>

\* the variables of request()
netVars == <<abortControllers, requests, started>>

\* the variables of the fetch directive
domVars == <<timers, pending, inflight, nextId>>

vars == <<coreVars, netVars, domVars>>

Net == [ac |-> abortControllers, rq |-> requests, started |-> started]

Dom == [timers |-> timers, pending |-> pending, inflight |-> inflight, nextId |-> nextId]

St ==
  [data |-> data, targetMap |-> targetMap, depKeys |-> depKeys,
   proxyMap |-> proxyMap, proxyTarget |-> proxyTarget, returned |-> returned,
   deps |-> deps, active |-> active,
   paused |-> paused, created |-> created, handle |-> handle,
   pausedEffects |-> pausedEffects,
   queue |-> queue, isFlushPending |-> isFlushPending, microtasks |-> microtasks,
   activeEffect |-> activeEffect, effectStack |-> effectStack,
   shouldTrack |-> shouldTrack, stack |-> stack, dirty |-> dirty,
   value |-> value, scopes |-> scopes, activeEffectScope |-> activeEffectScope,
   during |-> during, log |-> log, stale |-> stale,
   readSet |-> readSet, hit |-> hit]

\* the state a top-level call starts from: the per-call history is reset
Begin ==
  [St EXCEPT !.log = << >>,
             !.hit = IF lastOp.op = "flush" THEN [e \in Effects |-> {}] ELSE @]

Become(s, op) ==
  \E r \in {s} :
    /\ ops < MaxOps
    /\ ops' = ops + 1
    /\ lastOp' = op
    /\ data' = r.data
    /\ targetMap' = r.targetMap
    /\ depKeys' = r.depKeys
    /\ proxyMap' = r.proxyMap
    /\ proxyTarget' = r.proxyTarget
    /\ returned' = r.returned
    /\ deps' = r.deps
    /\ active' = r.active
    /\ paused' = r.paused
    /\ created' = r.created
    /\ handle' = r.handle
    /\ pausedEffects' = r.pausedEffects
    /\ queue' = r.queue
    /\ isFlushPending' = r.isFlushPending
    /\ microtasks' = r.microtasks
    /\ activeEffect' = r.activeEffect
    /\ effectStack' = r.effectStack
    /\ shouldTrack' = r.shouldTrack
    /\ stack' = r.stack
    /\ dirty' = r.dirty
    /\ value' = r.value
    /\ scopes' = r.scopes
    /\ activeEffectScope' = r.activeEffectScope
    /\ during' = r.during
    /\ log' = r.log
    /\ stale' = r.stale
    /\ readSet' = r.readSet
    /\ hit' = r.hit
    /\ UNCHANGED <<netVars, domVars>>

BecomeNet(n) ==
  /\ abortControllers' = n.ac
  /\ requests' = n.rq
  /\ started' = n.started
  /\ UNCHANGED <<coreVars, domVars>>

BecomeDom(d) ==
  /\ timers' = d.timers
  /\ pending' = d.pending
  /\ inflight' = d.inflight
  /\ nextId' = d.nextId
  /\ UNCHANGED <<coreVars, netVars>>

Op(name, e, k) == [op |-> name, e |-> e, k |-> k]

\* the state after the modules are loaded, for a program with the raw
\* targets d, the effects es, the computed values cs and the scopes scs
InitWith(d, es, cs, scs) ==
  /\ data = d
  /\ targetMap = << >>
  /\ depKeys = << >>
  /\ proxyMap = << >>
  /\ proxyTarget = << >>
  /\ returned = << >>
  /\ deps = [e \in es |-> << >>]
  /\ active = [e \in es |-> FALSE]
  /\ paused = [e \in es |-> FALSE]
  /\ created = [e \in es |-> FALSE]
  /\ handle = [e \in es |-> FALSE]
  /\ pausedEffects = {}
  /\ queue = << >>
  /\ isFlushPending = FALSE
  /\ microtasks = 0
  /\ activeEffect = NoEffect
  /\ effectStack = << >>
  /\ shouldTrack = TRUE
  /\ stack = << >>
  /\ dirty = [c \in cs |-> TRUE]
  /\ value = [c \in cs |-> Undefined]
  /\ scopes = [sc \in scs |-> NoScopeRecord]
  /\ activeEffectScope = NoScope
  /\ during = [e \in es |-> {}]
  /\ log = << >>
  /\ stale = [e \in es |-> FALSE]
  /\ readSet = [e \in es |-> {}]
  /\ hit = [e \in es |-> {}]
  /\ lastOp = Op("init", NoEffect, "")
  /\ ops = 0
  /\ abortControllers = [k \in AbortKeys |-> NoOwner]
  /\ requests = [r \in Requests |-> NewRequest]
  /\ started = << >>
  /\ timers = NoTimers
  /\ pending = {}
  /\ inflight = 0
  /\ nextId = 1

InitOf(es, cs, scs) == InitWith([t \in Targets |-> InitialRecord], es, cs, scs)

Init == InitOf(BasicEffects, {}, {})

InitR == InitOf(SelfWriters \cup NestingEffects, {}, {})

InitC == InitOf(Computeds \cup ComputedReaders, Computeds, {})

InitS == InitOf(ScopeEffects, {}, ScopeNames)

InitG == InitOf(GraphEffects, {}, {})

InitU == InitOf(RunEffects, {}, RunScopes)

InitI == InitWith([t \in {A} |-> InitialArray], PastEndEffects, {}, {})

InitZ == InitWith([t \in {Z} |-> InitialArray], FrozenEffects, {}, {})

InitM == InitWith([t \in {M} |-> InitialMap], MapEffects, {}, {})

InitE == InitWith([t \in {G} |-> InitialSet], SetEffects, {}, {})

InitF == InitOf(CycleEffects, {}, {})

InitQ == InitOf(QuitEffects, {}, QuitScopes)

InitT == InitOf(ThrowEffects, {}, {})

InitW == InitWith(<< >>, {}, {}, {})

InitA == InitWith([t \in {A} |-> InitialArray], ArrayEffects, {}, {})

(***************************************************************************)
(* Top-level calls                                                         *)
(***************************************************************************)

\* computed(getter)
computed(s, c) ==
  effect([s EXCEPT !.dirty[c] = TRUE, !.value[c] = Undefined], c)

CreateEffect(e) ==
  /\ ~created[e]
  /\ \A x \in Needs(e) : handle[x]
  /\ \A sc \in NeedsScopes(e) : scopes[sc].created
  /\ Cardinality({x \in Effects : created[x]}) < MaxEffects
  /\ Become(Run(effect(Begin, e)), Op("effect", e, ""))

CreateComputed(c) ==
  /\ ~created[c]
  /\ Cardinality({x \in Effects : created[x]}) < MaxEffects
  /\ Become(computed(Begin, c), Op("computed", c, ""))

\* the application reads c.value outside effect bodies
ReadComputed(c) ==
  /\ created[c]
  /\ Become(Run(computedGet(Begin, c)), Op("cread", c, ""))

\* sc = effectScope() at top level
NewScope(sc) ==
  /\ ~scopes[sc].created
  /\ Become(effectScope(Begin, sc), Op("scope", sc, ""))

\* sc.run(fn)
ScopeRun(sc, fn) ==
  /\ scopes[sc].created
  /\ \A x \in FnCreates(fn) :
       IF x \in Scopes THEN ~scopes[x].created ELSE ~created[x]
  /\ Become(Run(scopeRun(Begin, sc, fn)), Op("srun", sc, fn))

\* sc.stop()
ScopeStop(sc) ==
  /\ scopes[sc].created
  /\ Become(scopeStop(Begin, sc, FALSE), Op("sstop", sc, ""))

\* sc.pause()
ScopePause(sc) ==
  /\ scopes[sc].created
  /\ Become(scopePause(Begin, sc), Op("spause", sc, ""))

\* sc.resume()
ScopeResume(sc) ==
  /\ scopes[sc].created
  /\ Become(Run(scopeResume(Begin, sc)), Op("sresume", sc, ""))

\* state[k] = v
Write(k, v) ==
  /\ <<k, v>> \in WriteInputs
  /\ Become(Run(set(Begin, T, k, v, TRUE)), Op("write", NoEffect, k))

\* delete state[k]
Delete(k) ==
  /\ k \in DeleteInputs
  /\ Become(Run(deleteProperty(Begin, T, k)), Op("delete", NoEffect, k))

\* e.stop(), e.pause(), e.resume() and e() are calls on the handle that
\* effect() returned
Stop(e) ==
  /\ handle[e]
  /\ Become(stop(Begin, e), Op("stop", e, ""))

Pause(e) ==
  /\ handle[e]
  /\ ~paused[e]
  /\ Become(pause(Begin, e), Op("pause", e, ""))

Resume(e) ==
  /\ handle[e]
  /\ paused[e]
  /\ Become(Run(resume(Begin, e)), Op("resume", e, ""))

\* the application calls the handle: e()
Invoke(e) ==
  /\ handle[e]
  /\ Become(Run(run(Begin, e)), Op("invoke", e, ""))

\* the microtask scheduled by queueFlush runs flushJobs
Flush ==
  /\ microtasks > 0
  /\ Become(Run(flushJobs([Begin EXCEPT !.microtasks = @ - 1])),
            Op("flush", NoEffect, ""))

Next ==
  \/ \E e \in BasicEffects : CreateEffect(e)
  \/ \E w \in WriteInputs : Write(w[1], w[2])
  \/ \E k \in DeleteInputs : Delete(k)
  \/ \E e \in Effects : Stop(e)
  \/ \E e \in Effects : Pause(e)
  \/ \E e \in Effects : Resume(e)
  \/ \E e \in Effects : Invoke(e)
  \/ Flush

Spec == Init /\ [][Next]_vars

\* The program of self-writing and nesting effects: the application writes
\* the two properties they read.
NextR ==
  \/ \E e \in SelfWriters \cup NestingEffects : CreateEffect(e)
  \/ \E w \in {x \in WriteInputs : x[1] \in {"a", "b"}} : Write(w[1], w[2])
  \/ \E e \in Effects : Stop(e)
  \/ \E e \in Effects : Pause(e)
  \/ \E e \in Effects : Resume(e)
  \/ \E e \in Effects : Invoke(e)
  \/ Flush

SpecR == InitR /\ [][NextR]_vars

\* The program with a computed value and the effects that read it.
NextC ==
  \/ \E c \in Computeds : CreateComputed(c)
  \/ \E e \in ComputedReaders : CreateEffect(e)
  \/ \E w \in {x \in WriteInputs : x[1] \in {"flag", "a", "b"}} : Write(w[1], w[2])
  \/ \E c \in Computeds : ReadComputed(c)
  \/ \E e \in Effects : Stop(e)
  \/ \E e \in Effects : Pause(e)
  \/ \E e \in Effects : Resume(e)
  \/ Flush

SpecC == InitC /\ [][NextC]_vars

\* The program with effect scopes.
NextS ==
  \/ \E sc \in RootScopes : NewScope(sc)
  \/ \E sc \in Scopes : \E fn \in ScopeFns : ScopeRun(sc, fn)
  \/ \E sc \in Scopes : ScopeStop(sc)
  \/ \E sc \in Scopes : ScopePause(sc)
  \/ \E sc \in Scopes : ScopeResume(sc)
  \/ \E e \in ScopeEffects \ FnCreates("setup") : CreateEffect(e)
  \/ \E w \in {x \in WriteInputs : x[1] \in {"flag", "a"} /\ x[2] # NaN} : Write(w[1], w[2])
  \/ \E e \in Effects : Pause(e)
  \/ \E e \in Effects : Resume(e)
  \/ Flush

SpecS == InitS /\ [][NextS]_vars

\* The calls list.push(4), list.pop(), list.shift(), list.unshift(9),
\* list.splice(1, 1) and list.splice(-1, 0, 7, 8) the application makes
\* outside effect bodies.
MutateInputs ==
  { [m |-> "push",    start |-> 0,  dc |-> 0, items |-> << "4" >>],
    [m |-> "pop",     start |-> 0,  dc |-> 0, items |-> << >>],
    [m |-> "shift",   start |-> 0,  dc |-> 0, items |-> << >>],
    [m |-> "unshift", start |-> 0,  dc |-> 0, items |-> << "9" >>],
    [m |-> "splice",  start |-> 1,  dc |-> 1, items |-> << >>],
    [m |-> "splice",  start |-> -1, dc |-> 0, items |-> << "7", "8" >>] }

\* list[k] = v outside effect bodies
IndexInputs == {"0", "4"} \X {"6"}

\* list.push(...items), list.pop(), list.shift(), list.unshift(...items),
\* list.splice(start, dc, ...items)
Mutate(c) ==
  /\ c \in MutateInputs
  /\ Len(Native(c.m, Elements(data[A]), c)) <= MaxLen
  /\ Become(Run(arrayInstrumentations(Begin, A, c.m, c)), Op("mutate", NoEffect, c.m))

\* list[k] = v
WriteIndex(k, v) ==
  /\ k \in IndexKeys
  /\ ToNumber(k) < MaxLen
  /\ Become(Run(set(Begin, A, k, v, TRUE)), Op("write", NoEffect, k))

\* The program with a reactive array.
NextA ==
  \/ \E e \in ArrayEffects : CreateEffect(e)
  \/ \E c \in MutateInputs : Mutate(c)
  \/ \E w \in IndexInputs : WriteIndex(w[1], w[2])
  \/ \E e \in Effects : Stop(e)
  \/ Flush

SpecA == InitA /\ [][NextA]_vars

\* list[k] = v at and past the end of the array, and list.pop()
PastEndInputs == {"3", "4"} \X {"6", Undefined}

\* list.length = v: a RangeError for a value that is no array length
WriteLength(v) ==
  /\ v \in {"2", NaN}
  /\ Become(Run(set(Begin, A, "length", v, TRUE)), Op("wlength", NoEffect, "length"))

\* The program that assigns past the end of the array.
NextI ==
  \/ \E e \in PastEndEffects : CreateEffect(e)
  \/ \E w \in PastEndInputs : WriteIndex(w[1], w[2])
  \/ \E v \in {"2", NaN} : WriteLength(v)
  \/ \E c \in {x \in MutateInputs : x.m = "pop"} : Mutate(c)
  \/ Flush

SpecI == InitI /\ [][NextI]_vars

\* frozen.push(...items), frozen.pop(), ...: the same calls on the frozen
\* array
MutateFrozen(c) ==
  /\ c \in MutateInputs
  /\ Become(Run(arrayInstrumentations(Begin, Z, c.m, c)), Op("mutate", NoEffect, c.m))

\* frozen[k] = v: a TypeError, the trap returns false
WriteFrozen(k, v) ==
  /\ k \in IndexKeys
  /\ Become(Run(set(Begin, Z, k, v, TRUE)), Op("write", NoEffect, k))

\* delete frozen[k]: a TypeError when k is an element of the array
DeleteFrozen(k) ==
  /\ k \in IndexKeys
  /\ Become(Run(deleteProperty(Begin, Z, k)), Op("delete", NoEffect, k))

\* The program with a frozen reactive array.
NextZ ==
  \/ \E e \in FrozenEffects : CreateEffect(e)
  \/ \E c \in MutateInputs : MutateFrozen(c)
  \/ \E k \in {"0", "4"} : WriteFrozen(k, "9")
  \/ \E k \in {"0", "4"} : DeleteFrozen(k)
  \/ \E e \in Effects : Invoke(e)

SpecZ == InitZ /\ [][NextZ]_vars

\* table.set(k, v)
MapSet(k, v) ==
  /\ k \in MapKeys
  /\ Become(Run(mapSet(Begin, M, k, v)), Op("mset", NoEffect, k))

\* table.delete(k)
MapDelete(k) ==
  /\ k \in MapKeys
  /\ Become(Run(mapDelete(Begin, M, k)), Op("mdelete", NoEffect, k))

\* table.clear()
MapClear ==
  Become(Run(mapClear(Begin, M)), Op("mclear", NoEffect, ""))

\* The program with a reactive Map.
NextM ==
  \/ \E e \in MapEffects : CreateEffect(e)
  \/ \E w \in MapSetInputs : MapSet(w[1], w[2])
  \/ \E k \in MapKeys : MapDelete(k)
  \/ MapClear
  \/ Flush

SpecM == InitM /\ [][NextM]_vars

\* table.set(k, v) with the values 1 and NaN
MapNaNInputs == MapKeys \X {"1", NaN}

\* The program with a reactive Map that stores NaN.
NextK ==
  \/ \E e \in MapEffects : CreateEffect(e)
  \/ \E w \in MapNaNInputs : MapSet(w[1], w[2])
  \/ \E k \in MapKeys : MapDelete(k)
  \/ Flush

SpecK == InitM /\ [][NextK]_vars

\* tags.add(v)
SetAdd(v) ==
  /\ v \in SetValues
  /\ Become(Run(setAdd(Begin, G, v)), Op("sadd", NoEffect, v))

\* tags.delete(v)
SetDelete(v) ==
  /\ v \in SetValues
  /\ Become(Run(mapDelete(Begin, G, v)), Op("sdelete", NoEffect, v))

\* tags.clear()
SetClear ==
  Become(Run(mapClear(Begin, G)), Op("sclear", NoEffect, ""))

\* The program with a reactive Set.
NextE ==
  \/ \E e \in SetEffects : CreateEffect(e)
  \/ \E v \in SetValues : SetAdd(v)
  \/ \E v \in SetValues : SetDelete(v)
  \/ SetClear
  \/ Flush

SpecE == InitE /\ [][NextE]_vars

\* The program of batched effects that write each other's dependencies.
NextF ==
  \/ \E e \in CycleEffects : CreateEffect(e)
  \/ \E w \in {x \in WriteInputs : x[1] \in {"a", "b"} /\ x[2] # NaN} : Write(w[1], w[2])
  \/ \E e \in Effects : Stop(e)
  \/ Flush

SpecF == InitF /\ [][NextF]_vars

\* The program in which a function passed to run stops the scope.
NextQ ==
  \/ \E sc \in RootScopes : NewScope(sc)
  \/ \E sc \in Scopes : \E fn \in QuitFns : ScopeRun(sc, fn)
  \/ \E sc \in Scopes : ScopeStop(sc)
  \/ \E w \in {x \in WriteInputs : x[1] \in {"flag", "a"} /\ x[2] # NaN} : Write(w[1], w[2])
  \/ Flush

SpecQ == InitQ /\ [][NextQ]_vars

\* The program whose functions passed to run throw.
NextU ==
  \/ \E sc \in RootScopes : NewScope(sc)
  \/ \E sc \in Scopes : \E fn \in RunFns : ScopeRun(sc, fn)
  \/ \E sc \in Scopes : ScopeStop(sc)
  \/ \E w \in {x \in WriteInputs : x[1] \in {"flag", "a"} /\ x[2] # NaN} : Write(w[1], w[2])
  \/ Flush

SpecU == InitU /\ [][NextU]_vars

\* The program whose effect bodies throw.  effect() returns no handle of an
\* effect whose first run threw: the application calls nothing on it.
NextT ==
  \/ \E e \in ThrowEffects : CreateEffect(e)
  \/ \E w \in {x \in WriteInputs : x[1] \in {"flag", "a"} /\ x[2] # NaN} : Write(w[1], w[2])
  \/ Flush

SpecT == InitT /\ [][NextT]_vars

\* The program with an effect that reads a property twice and one whose
\* reads depend on a flag.
NextG ==
  \/ \E e \in GraphEffects : CreateEffect(e)
  \/ \E w \in {x \in WriteInputs : x[1] \in {"flag", "a"} /\ x[2] # NaN} : Write(w[1], w[2])
  \/ \E e \in Effects : Stop(e)
  \/ \E e \in Effects : Invoke(e)
  \/ Flush

SpecG == InitG /\ [][NextG]_vars

\* The same program when the application also stops effects.
NextN ==
  \/ \E e \in ThrowEffects : CreateEffect(e)
  \/ \E w \in {x \in WriteInputs : x[1] \in {"flag", "a"} /\ x[2] # NaN} : Write(w[1], w[2])
  \/ \E e \in Effects : Stop(e)
  \/ Flush

SpecN == InitT /\ [][NextN]_vars

\* reactive(x) for a raw object, a proxy the application holds or the
\* primitive 1
Wrap(x) ==
  /\ x \in Raw \cup DOMAIN proxyTarget \cup {"1"}
  /\ Become(Outcome(reactive(Begin, x), <<"reactive", x, "">>),
            Op("reactive", NoEffect, x))

\* proxy[k] on the proxy of an object, proxy.get(k) on the proxy of a Map
ReadNested(proxy, k) ==
  /\ proxy \in DOMAIN proxyTarget
  /\ k \in WrapKeys
  /\ Become(Outcome(IF getTargetType(proxyTarget[proxy]) = "COLLECTION"
                    THEN collectionGet(Begin, proxy, k)
                    ELSE baseGet(Begin, proxy, k),
                    <<"get", proxy, k>>),
            Op("get", proxy, k))

\* The program that wraps objects and reads their nested properties.
NextW ==
  \/ \E x \in Raw \cup DOMAIN proxyTarget \cup {"1"} : Wrap(x)
  \/ \E proxy \in DOMAIN proxyTarget : \E k \in WrapKeys : ReadNested(proxy, k)

SpecW == InitW /\ [][NextW]_vars

\* every top-level call runs to completion within the fuel
RunsToCompletion ==
  /\ stack = << >>
  /\ effectStack = << >>
  /\ activeEffect = NoEffect
  /\ activeEffectScope = NoScope

\* request(url, {abortKey, retry, timeout}) or request(url, {signal, ...})
Call(r) ==
  /\ requests[r].pc = "new"
  /\ BecomeNet(request(Net, r))

\* A task of the event loop (an answer of the network, a timer) starts when
\* the microtask queue is empty, and the continuation it wakes runs before
\* any other code; the application calls request() and aborts its signals
\* in tasks and in microtasks.

\* the server answers the fetch of r with status st
Respond(r, st) ==
  /\ Continuing(Net) = {}
  /\ requests[r].pc = "fetching"
  /\ BecomeNet(executeAfterFetch(Net, r, st))

\* the fetch of r fails: it rejects with a TypeError
NetworkError(r) ==
  /\ Continuing(Net) = {}
  /\ requests[r].pc = "fetching"
  /\ BecomeNet(executeCatch(Net, r, "TypeError"))

\* the timeout timer of the attempt fires
Timeout(r) ==
  /\ Continuing(Net) = {}
  /\ requests[r].pc = "fetching"
  /\ BecomeNet(onTimeout(Net, r))

\* the Retry-After timer or the backoff timer of r fires
TimerFires(r) ==
  /\ Continuing(Net) = {}
  /\ requests[r].pc \in {"waiting", "backoff"}
  /\ BecomeNet(execute(Net, r, requests[r].attempt + 1))

\* response.text() of the response of r resolves
BodyRead(r) ==
  /\ Continuing(Net) = {}
  /\ requests[r].pc = "reading"
  /\ BecomeNet(executeAfterBody(Net, r))

\* the signal the caller passed to r is aborted with the reason given,
\* before or after the call
CallerAbort(r, reason) ==
  /\ r \in SignalRequests
  /\ reason \in CallerReasons
  /\ ~requests[r].aborted
  /\ BecomeNet(abort(Net, r, reason))

\* microtask: execute(attempt) of r goes on after its fetch was aborted
FetchAborted(r) ==
  /\ requests[r].pc = "rejected"
  /\ BecomeNet(executeAfterAbort(Net, r))

\* microtask: r goes on after the body of its response was errored
BodyFailed(r) ==
  /\ requests[r].pc = "bodyfailed"
  /\ BecomeNet(executeAfterBodyFailed(Net, r))

\* microtask: request() of r goes on after execute(0) returned
Resolve(r) ==
  /\ requests[r].pc = "returned"
  /\ BecomeNet(resolve(Net, r))

\* The program that calls request().
NextX ==
  \/ \E r \in Requests : FetchAborted(r)
  \/ \E r \in Requests : BodyFailed(r)
  \/ \E r \in Requests : Resolve(r)
  \/ \E r \in Requests : Call(r)
  \/ \E r \in Requests : \E st \in Statuses : Respond(r, st)
  \/ \E r \in Requests : NetworkError(r)
  \/ \E r \in Requests : Timeout(r)
  \/ \E r \in Requests : TimerFires(r)
  \/ \E r \in Requests : BodyRead(r)
  \/ \E r \in Requests : \E reason \in CallerReasons : CallerAbort(r, reason)

SpecX == InitW /\ [][NextX]_vars

\* handleFetch(el): the trigger of the element fires
Trigger ==
  /\ nextId <= MaxTimers
  /\ BecomeDom(handleFetch(Dom))

\* a pending debounce timer or poll timer fires: executeFetch(...)
TimerFire(t) ==
  /\ t \in pending
  /\ BecomeDom(executeFetch([Dom EXCEPT !.pending = @ \ {t}]))

\* the answers of request() to executeFetch: the error status (OK for no
\* error) and typeof data
CompleteInputs ==
  { <<"OK", "string">>, <<"OK", "object">>, <<"CANCELED", "object">>, <<"500", "object">> }

\* request() of a call of executeFetch resolves
Complete(res, typeofData) ==
  /\ inflight > 0
  /\ <<res, typeofData>> \in CompleteInputs
  /\ executeFetchAfterRequest(Dom, res, typeofData).nextId <= MaxTimers + 1
  /\ BecomeDom(executeFetchAfterRequest(Dom, res, typeofData))

\* The page with the element.
NextD ==
  \/ Trigger
  \/ \E t \in pending : TimerFire(t)
  \/ \E c \in CompleteInputs : Complete(c[1], c[2])

SpecD == InitW /\ [][NextD]_vars

(***************************************************************************)
(* Properties                                                              *)
(***************************************************************************)

\* number of times the body of e was entered during the last top-level call
RunCount(lg, e) ==
  Cardinality({i \in 1..Len(lg) : lg[i].ev = "run" /\ lg[i].e = e})

Batched(e) == created[e] /\ ~OptSync(e)

\* C1: once the scheduled flushes have run (nothing pending, no flush
\* scheduled), no active, non-paused batched effect is left with a dependency
\* that changed after its body last started: every such write has been
\* followed by a run of the effect.
C1_RerunAfterWrite ==
  (queue = << >> /\ microtasks = 0) =>
    \A e \in Effects : (Batched(e) /\ active[e] /\ ~paused[e]) => ~stale[e]

\* C2: a write that changes a property an effect reads causes exactly one
\* re-run of it (inline for a sync effect, in the following flush for a
\* batched one, one write per flush); a write of the value already stored
\* runs nothing and puts nothing in the pending set.
C2_BasicTracking ==
  [][ /\ (lastOp'.op = "write"
            /\ SameValue(GetProp(St, T, lastOp'.k), data'[T][lastOp'.k]))
         => log' = << >>
      /\ lastOp'.op = "write" =>
           \A e \in Effects :
             (OptSync(e) /\ active[e] /\ ~paused[e] /\ e \in Readers(St, T, lastOp'.k)
                /\ ~SameValue(GetProp(St, T, lastOp'.k), data'[T][lastOp'.k]))
             => RunCount(log', e) = 1
      /\ lastOp'.op = "flush" =>
           \A e \in Effects :
             (Batched(e) /\ active[e] /\ Cardinality(hit'[e]) = 1)
             => RunCount(log', e) = 1
    ]_vars

\* C3: the pending set holds an effect at most once; a batched effect several
\* of whose tracked properties were changed by writes of one tick is in the
\* pending set after each of these writes, and the following flush runs its
\* body exactly once.
C3_Batching ==
  /\ NoDup(queue)
  /\ \A e \in Effects :
       (Batched(e) /\ active[e] /\ Cardinality(hit[e]) >= 2) =>
         /\ lastOp.op = "write" => SeqHas(queue, e)
         /\ lastOp.op = "flush" => RunCount(log, e) = 1

C3_Witness ==
  /\ lastOp.op = "flush"
  /\ \E e \in Effects :
       Batched(e) /\ active[e] /\ Cardinality(hit[e]) >= 2 /\ RunCount(log, e) = 1

\* C4: a job that enters the pending set while a flush is in progress is not
\* run by that flush.
C4_FlushDeferral ==
  lastOp.op = "flush" =>
    \A i, j \in 1..Len(log) :
      (i < j /\ log[i].ev = "enq") => ~(log[j].ev = "run" /\ log[j].e = log[i].e)

\* C5: the body of an effect is never entered once the effect is stopped,
\* whoever invokes the handle.
C5_StoppedEffectInert ==
  \A i \in 1..Len(log) : log[i].ev = "run" => log[i].active

\* C6: a stopped effect is in no subscriber set and its dependency list is
\* empty.
C6_StoppedNotSubscribed ==
  \A e \in Effects :
    (created[e] /\ ~active[e]) => (deps[e] = << >> /\ Subscriptions(St, e) = {})

\* C7: a flush does not run the body of a batched effect that was stopped
\* while it was in the pending set.
C7_StopCancelsJob ==
  [][ lastOp'.op = "flush" =>
        \A e \in Effects :
          (Batched(e) /\ SeqHas(queue, e) /\ ~active[e]) => RunCount(log', e) = 0
    ]_vars

C7_Witness ==
  /\ lastOp.op = "flush"
  /\ \E e \in Effects :
       Batched(e) /\ ~active[e] /\ hit[e] # {} /\ RunCount(log, e) = 0

\* C8: assigning a property that was not an own key of the record schedules
\* every active, non-paused batched effect that enumerated the record's keys.
C8_KeyAdditionTriggersIteration ==
  [][ (lastOp'.op = "write" /\ ~HasOwn(St, T, lastOp'.k)) =>
        \A e \in Effects :
          (Batched(e) /\ active[e] /\ ~paused[e] /\ SeqHas(Dep(St, T, ITERATE_KEY), e))
          => SeqHas(queue', e)
    ]_vars

\* C9: overwriting an existing own key with a different value neither runs
\* nor schedules an effect that is subscribed to the structural sentinel and
\* not to that key.
C9_OverwriteSparesIteration ==
  [][ (lastOp'.op = "write" /\ HasOwn(St, T, lastOp'.k)
         /\ ~SameValue(GetProp(St, T, lastOp'.k), data'[T][lastOp'.k])) =>
        \A e \in Effects :
          (SeqHas(Dep(St, T, ITERATE_KEY), e) /\ ~SeqHas(Dep(St, T, lastOp'.k), e)) =>
            /\ RunCount(log', e) = 0
            /\ SeqHas(queue', e) => SeqHas(queue, e)
            /\ e \in pausedEffects' => e \in pausedEffects
    ]_vars

\* C10: an active effect is subscribed to exactly the pairs its body read in
\* its last run; a write to the branch property (a or b) that `cond` did not
\* read in its last run neither runs nor schedules it.
C10_DynamicDependencies ==
  [][ /\ \A e \in Effects :
           (created'[e] /\ active'[e]) =>
             Subscriptions([targetMap |-> targetMap'], e) = readSet'[e]
      /\ (lastOp'.op = "write" /\ lastOp'.k \in {"a", "b"}
            /\ <<T, lastOp'.k>> \notin readSet["cond"]) =>
           /\ RunCount(log', "cond") = 0
           /\ SeqHas(queue', "cond") => SeqHas(queue, "cond")
    ]_vars

\* the flag was added, the flush re-ran `cond`, and it now follows a, not b
C10_Witness ==
  /\ lastOp.op = "flush"
  /\ active["cond"]
  /\ RunCount(log, "cond") = 1
  /\ readSet["cond"] = {<<T, "flag">>, <<T, "a">>}
  /\ Subscriptions(St, "cond") = {<<T, "flag">>, <<T, "a">>}


\* C11: the body of an effect that reads and writes the same property never
\* schedules or runs that effect (no pending-set entry and no run of it is
\* made while it is the active computation, and its body is never entered
\* while it is on the effect stack); it runs exactly once when it is created,
\* a sync one runs exactly once in an application write that changes the
\* property, and a batched one exactly once in the flush that follows such
\* writes.
C11_SelfTriggerGuard ==
  [][ /\ \A i \in 1..Len(log') :
           log'[i].e \in SelfWriters =>
             /\ log'[i].by # log'[i].e
             /\ log'[i].ev = "run" => ~log'[i].nested
      /\ \A e \in SelfWriters :
           /\ (lastOp'.op = "effect" /\ lastOp'.e = e) => RunCount(log', e) = 1
           /\ \A w \in WriteInputs :
                (/\ lastOp'.op = "write" /\ lastOp'.k = w[1]
                 /\ Write(w[1], w[2])
                 /\ OptSync(e) /\ active[e] /\ ~paused[e]
                 /\ e \in Readers(St, T, w[1])
                 /\ ~SameValue(GetProp(St, T, w[1]), w[2]))
                => RunCount(log', e) = 1
           /\ (lastOp'.op = "flush" /\ Batched(e) /\ active[e] /\ hit'[e] # {})
                => RunCount(log', e) = 1
    ]_vars

\* the flush ran `toggle` after an application write; its write of a ran
\* `bump` inline, whose write of a ran nothing
C11_Witness ==
  /\ lastOp.op = "flush"
  /\ hit["toggle"] # {}
  /\ log = << [ev |-> "run", e |-> "toggle", active |-> TRUE, by |-> NoEffect,
               nested |-> FALSE],
              [ev |-> "run", e |-> "bump", active |-> TRUE, by |-> "toggle",
               nested |-> FALSE] >>

\* C12: the body of an effect is never entered while that effect is on the
\* effect stack.
C12_NoReentrancy ==
  \A i \in 1..Len(log) : log[i].ev = "run" => ~log[i].nested


\* number of calls trigger(computedRef, 'value') made during the last
\* top-level call
NotifyCount(lg, c) ==
  Cardinality({i \in 1..Len(lg) : lg[i].ev = "notify" /\ lg[i].e = c})

\* C13: a read of c.value invokes the getter once if c is dirty and not at
\* all if it is clean, and a read that invokes it returns the getter's value
\* on the current state; a write that does not change the value of a
\* property the getter read leaves a clean computed clean and invokes
\* nothing; after a write that changes such a property (the computed's
\* effect being active and not paused) the computed is dirty, or has been
\* recomputed once by a reader during the write.
C13_ComputedMemoization ==
  [][ \A c \in Computeds :
        /\ (lastOp'.op = "cread" /\ lastOp'.e = c) =>
             /\ RunCount(log', c) = (IF dirty[c] THEN 1 ELSE 0)
             /\ dirty[c] => value'[c] = Getter(c, data'[T])
        /\ \A w \in WriteInputs :
             (lastOp'.op = "write" /\ lastOp'.k = w[1] /\ created[c]
                /\ Write(w[1], w[2]) /\ ~dirty[c]) =>
               IF <<T, w[1]>> \in readSet[c]
                    /\ ~SameValue(GetProp(St, T, w[1]), w[2])
               THEN (active[c] /\ ~paused[c]) =>
                       (dirty'[c] \/ RunCount(log', c) = 1)
               ELSE ~dirty'[c] /\ RunCount(log', c) = 0
    ]_vars

\* C14: whenever a computed is not dirty, its cached value is the value of
\* its getter on the current state.
C14_ComputedCacheInvariant ==
  \A c \in Computeds :
    (created[c] /\ ~dirty[c]) => value[c] = Getter(c, data[T])

\* C15: a write that changes a property read by the getter of a clean
\* computed (its effect active and not paused) notifies the computed's
\* subscribers once: a batched subscriber is in the pending set afterwards
\* and a sync one has run once; a write to a dirty computed notifies nobody
\* and runs nothing; the getter is invoked only by a read of c.value (every
\* run of it directly follows the entry of the value accessor).
C15_LazyInvalidation ==
  [][ \A c \in Computeds :
        /\ \A i \in 1..Len(log') :
             (log'[i].ev = "run" /\ log'[i].e = c) =>
               (i > 1 /\ log'[i - 1].ev = "cget" /\ log'[i - 1].e = c)
        /\ \A w \in WriteInputs :
             (lastOp'.op = "write" /\ lastOp'.k = w[1] /\ created[c]
                /\ Write(w[1], w[2])) =>
               /\ (/\ ~dirty[c] /\ active[c] /\ ~paused[c]
                   /\ SeqHas(Dep(St, T, w[1]), c)
                   /\ ~SameValue(GetProp(St, T, w[1]), w[2])) =>
                    /\ NotifyCount(log', c) = 1
                    /\ \A e \in ComputedReaders :
                         (SeqHas(Dep(St, c, "value"), e) /\ active[e] /\ ~paused[e]) =>
                           IF OptSync(e) THEN RunCount(log', e) = 1
                           ELSE SeqHas(queue', e)
                    /\ (\A e \in ComputedReaders : RunCount(log', e) = 0) =>
                         RunCount(log', c) = 0
               /\ dirty[c] => (NotifyCount(log', c) = 0 /\ log' = << >>)
    ]_vars

\* a write has invalidated the clean computed `pick` and queued `view`,
\* which had read it, without invoking the getter
C15_Witness ==
  /\ lastOp.op = "write"
  /\ dirty["pick"]
  /\ log = << [ev |-> "notify", e |-> "pick", by |-> NoEffect],
              [ev |-> "enq", e |-> "view", by |-> NoEffect] >>


\* number of events of one kind about x during the last top-level call
EvCount(lg, ev, x) ==
  Cardinality({i \in 1..Len(lg) : lg[i].ev = ev /\ lg[i].e = x})

\* the scope and the scopes it was constructed under
RECURSIVE OriginChain(_)
OriginChain(sc) ==
  IF scopes[sc].origin = NoScope THEN {sc}
  ELSE {sc} \cup OriginChain(scopes[sc].origin)

\* the scope and the scopes below it in the child collections of scs
RECURSIVE Subtree(_, _)
Subtree(scs, sc) ==
  {sc} \cup UNION {Subtree(scs, scs[sc].scopes[i]) : i \in 1..Len(scs[sc].scopes)}

\* C16: an effect created while run(fn) of a scope was executing does not
\* run its body in a write or a flush once that scope has been stopped:
\* not in a call that starts with the scope stopped, and not after the stop
\* in the call that stops it.
C16_ScopeDisposal ==
  [][ \A sc \in Scopes : \A e \in Effects :
        (sc \in during'[e] /\ lastOp'.op \in {"write", "flush"}) =>
          /\ (scopes[sc].created /\ ~scopes[sc].active) => RunCount(log', e) = 0
          /\ \A i, j \in 1..Len(log') :
               (i < j /\ log'[i].ev = "sstop" /\ log'[i].e = sc) =>
                 ~(log'[j].ev = "run" /\ log'[j].e = e)
    ]_vars

\* C17: the callbacks a stopped scope (stopped itself, or constructed under
\* a scope that has been stopped) has invoked are exactly the callbacks
\* registered with it while it was active, each once and in registration
\* order; a scope that has not been stopped has invoked none.
C17_ScopeCleanups ==
  \A sc \in Scopes :
    scopes[sc].created =>
      IF \E a \in OriginChain(sc) : ~scopes[a].active
      THEN scopes[sc].disposed = scopes[sc].registered
      ELSE scopes[sc].disposed = << >>

\* S.stop() was called a second time and invoked nothing; the first call had
\* invoked cb1, cb2 of S and, through S, cb3 of its child K
C17_Witness ==
  /\ lastOp.op = "sstop"
  /\ lastOp.e = "S"
  /\ log = << >>
  /\ scopes["S"].disposed = << "cb1", "cb2" >>
  /\ scopes["K"].disposed = << "cb3" >>

\* C18: stop() on an active scope leaves it, every scope below it and every
\* effect they own inactive, having stopped each of them once; it is then
\* not in the child collection of its former parent, whose other children
\* stay attached and as active as they were.
C18_TransitiveStop ==
  [][ \A sc \in Scopes :
        (lastOp'.op = "sstop" /\ lastOp'.e = sc /\ scopes[sc].active) =>
          LET D      == Subtree(scopes, sc)
              parent == scopes[sc].parent
          IN /\ \A d \in D :
                  /\ ~scopes'[d].active
                  /\ EvCount(log', "sstop", d) = 1
                  /\ \A i \in 1..Len(scopes[d].effects) :
                       /\ ~active'[scopes[d].effects[i]]
                       /\ EvCount(log', "estop", scopes[d].effects[i]) = 1
             /\ parent # NoScope =>
                  /\ scopes'[parent].scopes = SeqRemove(scopes[parent].scopes, sc)
                  /\ \A i \in 1..Len(scopes'[parent].scopes) :
                       scopes'[scopes'[parent].scopes[i]].active
    ]_vars

\* K.stop() was called: K and its effect are inactive and its sibling L is
\* the only child left in S
C18_Witness ==
  /\ lastOp.op = "sstop"
  /\ lastOp.e = "K"
  /\ ~scopes["K"].active
  /\ created["live"] /\ ~active["live"]
  /\ scopes["S"].active
  /\ scopes["S"].scopes = << "L" >>
  /\ scopes["L"].active

\* C19: run(fn) on a stopped scope warns once, executes fn, and leaves the
\* effects and cleanups of the stopped scope as they were.
C19_RunOnStoppedScope ==
  [][ \A sc \in Scopes :
        (lastOp'.op = "srun" /\ lastOp'.e = sc /\ scopes[sc].created
           /\ ~scopes[sc].active) =>
          /\ EvCount(log', "warn", sc) = 1
          /\ EvCount(log', "fn", lastOp'.k) = 1
          /\ scopes'[sc].effects = scopes[sc].effects
          /\ scopes'[sc].cleanups = scopes[sc].cleanups
    ]_vars


\* C20: an effect that is paused before and after a call other than its own
\* stop() or direct invocation is subscribed to the same pairs before and
\* after; resume() of a paused effect that was triggered while paused
\* dispatches it once (a sync effect runs once, a batched one is in the
\* pending set, entered at most once), and resume() of one that was not
\* triggered runs and schedules nothing.
C20_PauseResumeReplay ==
  [][ \A e \in Effects :
        /\ (created[e] /\ paused[e] /\ paused'[e]
              /\ ~(lastOp'.op \in {"stop", "invoke"} /\ lastOp'.e = e)) =>
             Subscriptions([targetMap |-> targetMap'], e) = Subscriptions(St, e)
        /\ (lastOp'.op = "resume" /\ lastOp'.e = e) =>
             IF e \in pausedEffects
             THEN /\ e \notin pausedEffects'
                  /\ IF OptSync(e) THEN RunCount(log', e) = 1
                     ELSE /\ SeqHas(queue', e)
                          /\ RunCount(log', e) = 0
                          /\ EvCount(log', "enq", e) = (IF SeqHas(queue, e) THEN 0 ELSE 1)
             ELSE log' = << >> /\ queue' = queue
    ]_vars

\* C21: one call of push, pop, shift, unshift or splice on the reactive array
\* enters the body of each effect or puts it in the pending set at most once
\* (an active sync effect subscribed to the array runs once); an active
\* batched effect subscribed to length is in the pending set after the call
\* and has not run; the flush that follows runs it once, and its body sees
\* the length the array then has.
C21_BulkMutationTriggersOnce ==
  [][ /\ lastOp'.op = "mutate" =>
           \A e \in Effects :
             /\ RunCount(log', e) + EvCount(log', "enq", e) <= 1
             /\ (OptSync(e) /\ active[e] /\ Subscriptions(St, e) # {}) =>
                  RunCount(log', e) = 1
             /\ (Batched(e) /\ active[e] /\ SeqHas(Dep(St, A, "length"), e)) =>
                  SeqHas(queue', e) /\ RunCount(log', e) = 0
      /\ lastOp'.op = "flush" =>
           \A e \in Effects :
             (Batched(e) /\ active[e] /\ SeqHas(queue, e)) =>
               /\ RunCount(log', e) = 1
               /\ \A i \in 1..Len(log') :
                    (log'[i].ev = "seen" /\ log'[i].e = e) =>
                      log'[i].v = data'[A]["length"]
               /\ e = "len" => EvCount(log', "seen", e) = 1
    ]_vars

C21_Witness ==
  /\ lastOp.op = "flush"
  /\ data[A] = ArrayOf(<< "1", "2", "3", "4" >>)
  /\ created["len"] /\ active["len"]
  /\ RunCount(log, "len") = 1
  /\ \E i \in 1..Len(log) : log[i].ev = "seen" /\ log[i].e = "len" /\ log[i].v = "4"

\* the position of x in the duplicate-free sequence seq, 0 if it is absent
Pos(seq, x) == IF SeqHas(seq, x) THEN CHOOSE i \in 1..Len(seq) : seq[i] = x ELSE 0

\* the jobs that entered the pending set during the last call, in order
Enqueued(lg) ==
  LET F[i \in 0..Len(lg)] ==
        IF i = 0 THEN << >>
        ELSE IF lg[i].ev = "enq" THEN Append(F[i - 1], lg[i].e) ELSE F[i - 1]
  IN F[Len(lg)]

\* C22: a call other than a flush leaves the jobs that are pending where
\* they are in the pending set (new jobs go behind them); a flush runs jobs
\* in the order of their insertion into the pending set, the jobs inserted
\* during the flush behind those inserted before it, and none twice.
C22_FlushOrder ==
  [][ /\ lastOp'.op # "flush" =>
           /\ Len(queue') >= Len(queue)
           /\ SubSeq(queue', 1, Len(queue)) = queue
      /\ lastOp'.op = "flush" =>
           LET order == queue \o Enqueued(log')
           IN /\ NoDup(order)
              /\ \A i, j \in 1..Len(log') :
                   (i < j /\ log'[i].ev = "run" /\ log'[j].ev = "run"
                      /\ Batched(log'[i].e) /\ Batched(log'[j].e)) =>
                     /\ Pos(order, log'[i].e) > 0
                     /\ Pos(order, log'[i].e) < Pos(order, log'[j].e)
    ]_vars

\* a flush ran `cond` and then `copy`, in the order of their insertion,
\* although the body of `copy` triggered `cond` again by writing NaN to b
C22_Witness ==
  /\ lastOp.op = "flush"
  /\ created["cond"] /\ created["copy"]
  /\ <<T, "b">> \in readSet["cond"]
  /\ data[T]["b"] = NaN
  /\ \E i, j \in 1..Len(log) :
       /\ i < j
       /\ log[i].ev = "run" /\ log[i].e = "cond"
       /\ log[j].ev = "run" /\ log[j].e = "copy"
  /\ RunCount(log, "cond") = 1

\* the last call returned the value v
Returned(lg, v) == lg # << >> /\ lg[Len(lg)].ev = "ret" /\ lg[Len(lg)].e = v

\* C23: reactive(x) of a raw object returns a proxy of x, and the proxy it
\* returned when it was first called; reactive(p) of a proxy returns p; a
\* read of a nested object through a proxy returns a proxy of that object,
\* and the proxy the same read returned before.
C23_StableWrapping ==
  [][ /\ lastOp'.op = "reactive" =>
           LET x == lastOp'.k
               d == <<"reactive", x, "">>
           IN /\ x \in Raw =>
                   \E p \in DOMAIN proxyTarget' :
                     proxyTarget'[p] = x /\ Returned(log', p)
              /\ x \in DOMAIN proxyTarget => Returned(log', x)
              /\ d \in DOMAIN returned => Returned(log', returned[d])
      /\ lastOp'.op = "get" =>
           LET p == lastOp'.e
               d == <<"get", p, lastOp'.k>>
               nested == Own(proxyTarget[p], lastOp'.k)
           IN nested \in Raw =>
                /\ \E q \in DOMAIN proxyTarget' :
                     proxyTarget'[q] = nested /\ Returned(log', q)
                /\ d \in DOMAIN returned => Returned(log', returned[d])
                /\ <<"reactive", nested, "">> \in DOMAIN returned =>
                     Returned(log', returned[<<"reactive", nested, "">>])
    ]_vars

\* C24: a sync effect is never in the pending set; a write by the
\* application that changes the value of a property an active, non-paused
\* sync effect is subscribed to enters the body of the effect exactly once
\* during the write, and no job enters the pending set for it.
C24_SyncInline ==
  [][ /\ \A e \in Effects : OptSync(e) => ~SeqHas(queue', e)
      /\ \A w \in WriteInputs :
           LET inline == {e \in Effects : OptSync(e) /\ active[e] /\ ~paused[e]
                                            /\ SeqHas(Dep(St, T, w[1]), e)}
           IN (lastOp'.op = "write" /\ lastOp'.k = w[1]
                 /\ ~SameValue(GetProp(St, T, w[1]), w[2])
                 /\ inline # {}
                 /\ Write(w[1], w[2])) =>
                \A e \in inline :
                  RunCount(log', e) = 1 /\ EvCount(log', "enq", e) = 0
    ]_vars

\* `watch`, created with sync and a scheduler, ran inside a write of `a`
C24_Witness ==
  /\ lastOp.op = "write" /\ lastOp.k = "a"
  /\ OptSync("watch") /\ OptScheduler("watch")
  /\ created["watch"] /\ active["watch"]
  /\ RunCount(log, "watch") = 1
  /\ ~SeqHas(queue, "watch")

\* C25: when the body of an effect throws, the active effect and the effect
\* stack after the run are those from which the run started, and nothing
\* else happens before the exception is with the caller: it leaves the
\* top-level call (the application's effect(), write or flush) when the run
\* was the outermost one, and otherwise goes on to the effect body that made
\* the call, which catches it or is left by it in turn.
C25_ErrorsPropagate ==
  \A j \in 1..Len(log) :
    log[j].ev = "threw" =>
      /\ log[j].by = log[j].by0
      /\ log[j].stack = log[j].stack0
      /\ j < Len(log)
      /\ IF log[j].stack0 = << >>
         THEN log[j + 1].ev = "uncaught" /\ j + 1 = Len(log)
         ELSE log[j + 1].ev \in {"caught", "threw"}
              /\ log[j + 1].e = log[j].by0

\* a write re-ran `wrap`, whose body called `alarm`, which threw: `wrap` was
\* the active effect again when it caught the exception
C25_Witness ==
  /\ lastOp.op = "write"
  /\ \E j \in 1..Len(log) :
       /\ log[j].ev = "threw" /\ log[j].e = "alarm"
       /\ log[j].stack0 = << "wrap" >> /\ log[j].by = "wrap"
  /\ activeEffect = NoEffect /\ effectStack = << >>

\* C26: between top-level calls, a non-empty pending set has a flush
\* scheduled; and a write that changes a property an active batched effect
\* is subscribed to leaves the effect pending with a flush scheduled, also
\* after a flush that a throwing job has left.
C26_SchedulerSurvivesThrow ==
  /\ queue # << >> => (isFlushPending /\ microtasks > 0)
  /\ \A e \in Effects :
       (lastOp.op = "write" /\ Batched(e) /\ active[e] /\ ~paused[e]
          /\ lastOp.k \in hit[e]) =>
         (SeqHas(queue, e) /\ microtasks > 0)

\* C27: a call made while an effect is paused, other than its resume() and
\* a direct invocation of its handle, does not enter the body of the effect:
\* not a write, and not a flush that finds the effect in the pending set.
C27_PausedDoesNotRun ==
  [][ \A e \in Effects :
        (created[e] /\ paused[e] /\ paused'[e]
           /\ ~(lastOp'.op = "invoke" /\ lastOp'.e = e)) =>
          RunCount(log', e) = 0
    ]_vars

\* C28: a scope that has been stopped has no effects, no cleanup callbacks
\* and no child scopes.
C28_StoppedScopeOwnsNothing ==
  \A sc \in Scopes :
    (scopes[sc].created /\ ~scopes[sc].active) =>
      /\ scopes[sc].effects = << >>
      /\ scopes[sc].cleanups = << >>
      /\ scopes[sc].scopes = << >>

\* C29: every top-level call, a flush in particular, comes to its end (the
\* call stack is empty when it is over); a flush enters the body of each
\* job at most once and leaves the pending set empty.
C29_FlushTerminates ==
  /\ stack = << >>
  /\ lastOp.op = "flush" =>
       /\ \A e \in Effects : RunCount(log, e) <= 1
       /\ queue = << >>

\* a flush ran `pong` and then `ping`, once each, although the write of
\* `ping` changed what `pong` had read in the same flush
C29_Witness ==
  /\ lastOp.op = "flush"
  /\ RunCount(log, "ping") = 1
  /\ RunCount(log, "pong") = 1
  /\ active["pong"] /\ stale["pong"]

\* C30: clear() on a non-empty Map re-runs every active effect whose last
\* run read a present key with get or has and read neither size nor
\* iterated: a sync effect runs once during the call, a batched one is in
\* the pending set after it.
C30_ClearNotifiesKeyReaders ==
  [][ \A e \in Effects :
        (lastOp'.op = "mclear" /\ MapSize(St, M) > 0
           /\ created[e] /\ active[e] /\ ~paused[e]
           /\ <<M, ITERATE_KEY>> \notin readSet[e]
           /\ \E k \in MapKeys : <<M, k>> \in readSet[e] /\ HasOwn(St, M, k)) =>
          IF OptSync(e) THEN RunCount(log', e) = 1 ELSE SeqHas(queue', e)
    ]_vars

\* C31: between top-level calls the tracking flag is set, and an active
\* effect is subscribed to every property its body read in its last run.
C31_TrackingReenabled ==
  /\ shouldTrack
  /\ \A e \in Effects :
       (created[e] /\ active[e] /\ RunCount(log, e) > 0) =>
         readSet[e] \subseteq Subscriptions(St, e)

\* C32: between top-level calls no effect is the active computation and the
\* effect stack is empty, and every active effect is subscribed to exactly the
\* properties its own body read in its last run: the reads of the body of an
\* effect it called were recorded for that effect only, and its own reads
\* after the call, returned or caught, were recorded for it.
C32_NestedAttribution ==
  /\ activeEffect = NoEffect /\ effectStack = << >>
  /\ \A e \in Effects :
       (created[e] /\ active[e]) => Subscriptions(St, e) = readSet[e]

\* C33: between top-level calls, every (target, key) entry of the dependency
\* graph has at least one active effect in its subscriber set.
C33_NoDeadEntries ==
  \A p \in DOMAIN targetMap :
    \E e \in Effects : SeqHas(targetMap[p], e) /\ active[e]

\* number of occurrences of x in the sequence q
Occurrences(q, x) == Cardinality({i \in 1..Len(q) : q[i] = x})

\* C34: an effect is a member of the subscriber set of a (target, key) if
\* and only if that set is in the effect's own dependency list, where it
\* occurs exactly once.
C34_BackReferences ==
  \A e \in Effects :
    \A p \in DOMAIN targetMap \cup {deps[e][i] : i \in 1..Len(deps[e])} :
      Occurrences(deps[e], p) = IF SeqHas(Dep(St, p[1], p[2]), e) THEN 1 ELSE 0

\* a write of a re-ran `twice`, whose body read a twice: it is in the
\* subscriber set of a, which is once in its dependency list
C34_Witness ==
  /\ lastOp.op = "write" /\ lastOp.k = "a"
  /\ RunCount(log, "twice") = 1
  /\ active["twice"]
  /\ SeqHas(Dep(St, T, "a"), "twice")
  /\ deps["twice"] = << <<T, "a">> >>

\* the call made by the step ran the body of e or put e in the pending set
Notified(lg, e) == RunCount(lg, e) + EvCount(lg, "enq", e) > 0

\* C35: an assignment list[i] = v with i at or above the length of the array
\* notifies every active effect subscribed to index i and every active
\* effect subscribed to length: a sync one runs, a batched one is in the
\* pending set after the call.
C35_IndexWritePastEnd ==
  [][ (/\ lastOp'.op = "write"
       /\ ToNumber(lastOp'.k) >= ToNumber(data[A]["length"])) =>
        \A e \in Effects :
          (/\ active[e] /\ ~paused[e]
           /\ \/ SeqHas(Dep(St, A, lastOp'.k), e)
              \/ SeqHas(Dep(St, A, "length"), e)) =>
            IF OptSync(e) THEN RunCount(log', e) > 0 ELSE SeqHas(queue', e)
    ]_vars

\* C36: table.set(k, v) notifies an active effect if and only if the effect
\* is subscribed to k and k was absent or v is not the value stored, or it
\* is subscribed to the structural sentinel and k was absent; table.delete(k)
\* notifies it if and only if k was present and the effect is subscribed to
\* k or to the sentinel.  A notified sync effect has run and a notified
\* batched one is in the pending set; an effect that is not notified has
\* neither run nor entered the pending set.
C36_MapWriteDiscipline ==
  [][ \A e \in Effects :
        (lastOp'.op \in {"mset", "mdelete"} /\ created[e] /\ active[e] /\ ~paused[e]) =>
          LET k       == lastOp'.k
              hadKey  == HasOwn(St, M, k)
              onKey   == SeqHas(Dep(St, M, k), e)
              onSize  == SeqHas(Dep(St, M, ITERATE_KEY), e)
              differs == ~SameValue(GetProp(St, M, k), data'[M][k])
              due     == IF lastOp'.op = "mset"
                         THEN (onKey /\ (~hadKey \/ differs)) \/ (onSize /\ ~hadKey)
                         ELSE hadKey /\ (onKey \/ onSize)
          IN IF due
             THEN IF OptSync(e) THEN RunCount(log', e) > 0 ELSE SeqHas(queue', e)
             ELSE ~Notified(log', e)
    ]_vars

\* C37: after a top-level call the active scope is undefined, as it was
\* before it, whether a function passed to run returned or threw; in
\* S.run(host), every effect made by the function K.run(boom) is registered
\* with K, and the effect host makes after K.run returned or threw is
\* registered with S and not with K.
C37_RunRestoresScope ==
  [][ /\ activeEffectScope' = NoScope
      /\ (lastOp'.op = "srun" /\ lastOp'.k = "host" /\ scopes[lastOp'.e].active) =>
           /\ scopes'[lastOp'.e].effects = Append(scopes[lastOp'.e].effects, "late")
           /\ scopes'["K"].effects =
                IF Truthy(GetProp(St, T, "flag")) THEN << "live" >> ELSE << "live", "job" >>
      /\ (lastOp'.op = "srun" /\ lastOp'.k = "boom" /\ scopes[lastOp'.e].active) =>
           scopes'[lastOp'.e].effects = scopes[lastOp'.e].effects \o
                (IF Truthy(GetProp(St, T, "flag")) THEN << "live" >> ELSE << "live", "job" >>)
    ]_vars

\* S.run(host) was called while state.flag was set: K.run(boom) threw after
\* making `live`, host caught the exception and made `late`
C37_Witness ==
  /\ lastOp.op = "srun" /\ lastOp.k = "host"
  /\ EvCount(log, "caught", NoEffect) = 1
  /\ scopes["K"].effects = << "live" >>
  /\ scopes["S"].effects = << "late" >>
  /\ activeEffectScope = NoScope

\* the call that registered its controller last, NoOwner if there is none
Latest == IF started = << >> THEN NoOwner ELSE started[Len(started)]

\* C38: the entry of the abortKey is the call that registered last while
\* that call has not resolved, and there is no entry once it has; every
\* call that registered before it has been aborted or has resolved, and the
\* latest has not been aborted; a call that registers aborts the owner of
\* the entry it replaces.
C38_AbortKeyOwnership ==
  [][ /\ abortControllers'["search"] =
           (IF Latest' # NoOwner /\ requests'[Latest'].pc # "done"
            THEN Latest' ELSE NoOwner)
      /\ \A i \in 1..Len(started') :
           IF i = Len(started')
           THEN ~requests'[started'[i]].aborted
           ELSE requests'[started'[i]].aborted \/ requests'[started'[i]].pc = "done"
      /\ \A r \in KeyedRequests :
           (requests[r].pc = "new" /\ requests'[r].pc # "new"
              /\ abortControllers["search"] # NoOwner) =>
             requests'[abortControllers["search"]].aborted
    ]_vars

\* r2 replaced r1 while r1 was at a retry timer; r1 has since resolved
\* (CANCELED) and the entry is still the one of r2, which is fetching
C38_Witness ==
  /\ started = << "r1", "r2" >>
  /\ requests["r1"].pc = "done" /\ requests["r1"].abortedAt \in {"waiting", "backoff"}
  /\ requests["r2"].pc = "fetching" /\ ~requests["r2"].aborted
  /\ abortControllers["search"] = "r2"

\* C39: a call of request() makes at most retry + 1 calls of fetch and has a
\* result when it has resolved; it makes no call of fetch once its main
\* signal is aborted, and a call whose main signal was aborted before it
\* resolved resolves with the error status CANCELED.
C39_BoundedRetry ==
  [][ \A r \in Requests :
        /\ requests'[r].fetches <= MaxRetry + 1
        /\ requests'[r].pc = "done" => requests'[r].result # "none"
        /\ requests[r].aborted => requests'[r].fetches = requests[r].fetches
        /\ (requests'[r].pc = "done" /\ requests'[r].abortedAt \notin {"", "done"}) =>
             requests'[r].result = "CANCELED"
    ]_vars

\* C40: every pending timer of the element is the debounce timer or the
\* poll timer recorded in its entry of `timers`, so at most one of each is
\* pending.
C40_TimersCancellable ==
  \A t \in pending :
    IF t.kind = "debounce" THEN timers.debounce = t.id ELSE timers.poll = t.id

=============================================================================
